---- MODULE Spec2Model ----
(***************************************************************************)
(* A model of the hook engine of source/cpp/hooks/hooks.cpp: the registry  *)
(* of low-level function hooks (Hooks::HookEngine), the platform backend   *)
(* it delegates to (Hooks::Implementation, Dobby), the mutex that guards   *)
(* the registry, and the Objective-C method hooks (Hooks::ObjcMethodHook); *)
(* and of AntiDetectionSystem: ExecuteWithSanitizedCallStack from its      *)
(* header, the rest of the class from its declaration and specification.   *)
(* Beside them: MemoryOptimizer's object cache, SystemState and the Luau    *)
(* allocation tracker.                                                      *)
(*                                                                         *)
(* Spec      one caller issuing any sequence of HookEngine calls; every    *)
(*           action is one whole call, and `last` records what the call    *)
(*           saw and returned.                                             *)
(* SpecNet   RegisterHook / UnregisterHook only, with the number of calls  *)
(*           that returned success counted.                                *)
(* SpecRace  one thread per target, each inside RegisterHook, interleaved  *)
(*           at the granularity of the mutex and the backend call.         *)
(* SpecThreads      two threads, each inside RegisterHook or              *)
(*                  UnregisterHook, interleaved the same way.              *)
(* SpecObjc         one caller issuing any sequence of ObjcMethodHook      *)
(*                  calls; `lastM` records the last call and the one       *)
(*                  before it.                                             *)
(* SpecObjcThreads  two threads, each inside HookMethod or UnhookMethod.   *)
(* SpecStack        EnableProtection / DisableProtection of CallStack and  *)
(*                  ExecuteWithSanitizedCallStack around an operation      *)
(*                  that returns or throws.                                 *)
(* SpecCallbacks    one caller registering and unregistering protection     *)
(*                  and detection callbacks.                                *)
(* SpecNotify       a notifying thread dispatching callbacks that may       *)
(*                  themselves register or unregister, beside a second      *)
(*                  thread that registers and unregisters.                  *)
(* SpecRegions      ProtectMemoryRegion / UnprotectMemoryRegion over a      *)
(*                  small memory.                                           *)
(* SpecRisk         UpdateDetectionTechniques against a clock.              *)
(* SpecLocks        two threads at the lock_guards of the hook map, the     *)
(*                  method-hook map, the callback maps and the regions.     *)
(* SpecEngineCalls  two threads, each inside any HookEngine or              *)
(*                  ObjcMethodHook call, every thread eventually stepping.  *)
(* SpecCache        CacheObject / GetCachedObject of MemoryOptimizer against *)
(*                  a clock.                                                *)
(* SpecSystem       SystemState::Initialize step by step, Shutdown and      *)
(*                  ExecuteScript (init.hpp).                               *)
(* SpecLuau         LuauMemory::trackingAllocator and its tracker           *)
(*                  (luau_fixes.h).                                         *)
(***************************************************************************)
EXTENDS Integers, FiniteSets, Sequences, TLC

\* ------------------------------------------------------------------ bounds

\* Distinct non-null target addresses (and threads of SpecRace).
NTargets == 3

\* Distinct non-null replacement addresses.
NHooks == 2

\* Successful calls counted in SpecNet.
MaxCalls == 5

\* --------------------------------------------------------------- constants

\* nullptr: `!targetAddr`, `!hookAddr`.
Null == 0

\* s_hookMutex when no thread owns it.
NoOwner == 0

Targets == 1..NTargets

Hooks == 1..NHooks

Threads == 1..NTargets

VARIABLES
    s_hookedFunctions,   \* std::unordered_map<void*, void*>: target -> hook
    patched,             \* the backend's state: target -> code it now jumps to
    apple,               \* whether the build defines __APPLE__
    dobby,               \* "any": each Dobby call may succeed or fail;
                         \* "accepting": Dobby accepts every call
    last,                \* the call that returned last (Spec, SpecNet)
    registerSuccesses,   \* RegisterHook calls that returned true (SpecNet)
    unregisterSuccesses, \* UnregisterHook calls that returned true (SpecNet)
    s_hookMutex,         \* owner of s_hookMutex, or NoOwner (SpecRace)
    pc,                  \* each thread's position (SpecRace)
    call,                \* each thread's arguments (SpecRace)
    success,             \* each thread's local `success` (SpecRace)
    ret,                 \* each thread's return value (SpecRace)
    callOp,              \* the call each thread is in, or was in last
    logged,              \* the message each thread's call wrote last
    s_hookedMethods,     \* std::map<std::string, pair<Class, SEL>>
    imp,                 \* the runtime's implementation slot of each method
    lastM,               \* the ObjcMethodHook call that returned last
    s_methodMutex,       \* owner of s_methodMutex, or NoOwner
    originalImp,         \* each thread's local `originalImp` in HookMethod
    preSwap,             \* the slot's content just before each thread's swap
    callStackEnabled,    \* m_enabledProtections[ProtectionType::CallStack]
    sanitizeCount,       \* calls of SanitizeCallStack so far
    restoreCount,        \* calls of RestoreCallStack so far
    lastExit,            \* how the last wrapped operation ended
    m_nextCallbackId,    \* int: the id the next registration gets
    m_protectionCallbacks, \* unordered_map<int, ProtectionCallback>
    m_detectionCallbacks,  \* unordered_map<int, DetectionCallback>
    issued,              \* the ids the Register calls returned, in order
    m_mutex,             \* owner of AntiDetectionSystem::m_mutex, or NoOwner
    dispatch,            \* each thread's Notify call: its copy of the
                         \* registrations and the ids it has invoked
    m_protectedRegions,  \* unordered_map<void*, pair<uint8_t*, size_t>>
    memory,              \* the bytes of the process's memory
    now,                 \* the clock
    lastUpdate,          \* when the detection techniques were refreshed
    lastA,               \* the AntiDetectionSystem call that returned last
    m_objectCache,       \* unordered_map<std::string, CacheEntry>
    cacheSize,           \* m_stats.cacheSize
    lastC,               \* the MemoryOptimizer call that returned last
    s_status,            \* SystemState::s_status
    s_executionEngine,   \* shared_ptr<ExecutionEngine>: Null or the engine
    s_scriptManager,     \* shared_ptr<ScriptManager>: Null or the manager
    s_uiController,      \* unique_ptr<UIController>: Null or the controller
    lastS,               \* the SystemState call that returned last
    allocated,           \* globalTracker.allocated
    peak,                \* globalTracker.peak
    blocks,              \* the live blocks of the allocator: ptr -> size
    highest              \* the largest value `allocated` has had

hookVars == <<s_hookedFunctions, patched, apple, dobby>>

netVars == <<registerSuccesses, unregisterSuccesses>>

threadVars == <<s_hookMutex, pc, call, success, ret, callOp, logged>>

objcVars == <<s_hookedMethods, imp, lastM, s_methodMutex, originalImp, preSwap>>

stackVars == <<callStackEnabled, sanitizeCount, restoreCount, lastExit>>

cbVars == <<m_nextCallbackId, m_protectionCallbacks, m_detectionCallbacks,
            issued, m_mutex, dispatch>>

regionVars == <<m_protectedRegions, memory>>

riskVars == <<now, lastUpdate>>

antiVars == <<cbVars, regionVars, riskVars, lastA>>

cacheVars == <<m_objectCache, cacheSize, lastC>>

sysVars == <<s_status, s_executionEngine, s_scriptManager, s_uiController,
             lastS>>

luauVars == <<allocated, peak, blocks, highest>>

\* What neither the hook engine nor the stealth layer touches.
hostVars == <<cacheVars, sysVars, luauVars>>

\* What the hook engine never touches.
restVars == <<objcVars, stackVars, antiVars, hostVars>>

vars == <<s_hookedFunctions, patched, apple, dobby, last,
          registerSuccesses, unregisterSuccesses,
          s_hookMutex, pc, call, success, ret, callOp, logged,
          s_hookedMethods, imp, lastM, s_methodMutex, originalImp, preSwap,
          callStackEnabled, sanitizeCount, restoreCount, lastExit,
          m_nextCallbackId, m_protectionCallbacks, m_detectionCallbacks,
          issued, m_mutex, dispatch, m_protectedRegions, memory,
          now, lastUpdate, lastA,
          m_objectCache, cacheSize, lastC,
          s_status, s_executionEngine, s_scriptManager, s_uiController, lastS,
          allocated, peak, blocks, highest>>

\* ------------------------------------------------------- the map operations

\* An empty std::unordered_map.
EmptyMap == [x \in {} |-> Null]

\* m.find(k) != m.end()
Find(m, k) == k \in DOMAIN m

\* m[k] = v
Put(m, k, v) == [x \in (DOMAIN m) \cup {k} |-> IF x = k THEN v ELSE m[x]]

\* m.erase(it), it = m.find(k)
Erase(m, k) == [x \in (DOMAIN m) \ {k} |-> m[x]]

\* Every map from some of the keys K to values in V.
Maps(K, V) == UNION {[S -> V] : S \in SUBSET K}

\* ------------------------------------------------------------- the backend

\* What a Dobby call may return as `result == 0`.
DobbyOutcomes == IF dobby = "accepting" THEN {TRUE} ELSE BOOLEAN

\* HookFunctionOutcomes of a backend compiled in on every platform.
HookFunctionOutcomesAnyPlatform(target, replacement) ==
    IF target # Null /\ replacement # Null THEN DobbyOutcomes ELSE {FALSE}

\* The values Implementation::HookFunction may return.
HookFunctionOutcomes(target, replacement) ==
    IF apple /\ target # Null /\ replacement # Null
    THEN DobbyOutcomes
    ELSE {FALSE}

\* The backend's state after HookFunction returned ok.
HookFunction(p, target, replacement, ok) ==
    IF ok THEN Put(p, target, replacement) ELSE p

\* The values Implementation::UnhookFunction may return.
UnhookFunctionOutcomes(target) ==
    IF apple /\ target # Null THEN DobbyOutcomes ELSE {FALSE}

\* The backend's state after UnhookFunction returned ok.
UnhookFunction(p, target, ok) ==
    IF ok THEN Erase(p, target) ELSE p

\* ------------------------------------------ HookEngine, one whole call each

\* What `last` records of a call that returned: its arguments and return
\* value, the registry and the backend state it started from, the targets it
\* passed to the backend (calls), those the backend reported success for
\* (okSet), and the call that had returned before it (prevOp).
Returned(op, targetAddr, hookAddr, result, calls, okSet) ==
    [op |-> op, target |-> targetAddr, hook |-> hookAddr, ret |-> result,
     pre |-> s_hookedFunctions, prePatched |-> patched,
     calls |-> calls, okSet |-> okSet, prevOp |-> last.op]

\* InvalidHookArgs without the check of the replacement address.
InvalidHookArgsTargetOnly(targetAddr, hookAddr) == targetAddr = Null

\* RegisterHook: `if (!targetAddr || !hookAddr)`
InvalidHookArgs(targetAddr, hookAddr) ==
    targetAddr = Null \/ hookAddr = Null

\* AlreadyHooked without the lookup: no target is ever found hooked.
AlreadyHookedNever(m, targetAddr) == FALSE

\* RegisterHook: `s_hookedFunctions.find(targetAddr) != s_hookedFunctions.end()`
AlreadyHooked(m, targetAddr) == Find(m, targetAddr)

\* RegisterCommit storing the entry whatever the backend returned.
RegisterCommitAlways(m, targetAddr, hookAddr, ok) ==
    Put(m, targetAddr, hookAddr)

\* RegisterHook: `if (success) s_hookedFunctions[targetAddr] = hookAddr;`
RegisterCommit(m, targetAddr, hookAddr, ok) ==
    IF ok THEN Put(m, targetAddr, hookAddr) ELSE m

\* bool HookEngine::RegisterHook(void* targetAddr, void* hookAddr, void**)
RegisterHook(targetAddr, hookAddr) ==
    IF InvalidHookArgs(targetAddr, hookAddr)
       \/ AlreadyHooked(s_hookedFunctions, targetAddr)
    THEN /\ last' = Returned("RegisterHook", targetAddr, hookAddr, FALSE, {}, {})
         /\ UNCHANGED hookVars
    ELSE \E ok \in HookFunctionOutcomes(targetAddr, hookAddr) :
         /\ patched' = HookFunction(patched, targetAddr, hookAddr, ok)
         /\ s_hookedFunctions' =
                RegisterCommit(s_hookedFunctions, targetAddr, hookAddr, ok)
         /\ last' = Returned("RegisterHook", targetAddr, hookAddr, ok,
                             {targetAddr}, IF ok THEN {targetAddr} ELSE {})
         /\ UNCHANGED <<apple, dobby>>

\* UnregisterHook: `if (!targetAddr)`
InvalidUnhookArg(targetAddr) == targetAddr = Null

\* NotHooked without the lookup: every target counts as hooked.
NotHookedNever(m, targetAddr) == FALSE

\* UnregisterHook: `it == s_hookedFunctions.end()`
NotHooked(m, targetAddr) == ~Find(m, targetAddr)

\* UnregisterCommit erasing the entry whatever the backend returned.
UnregisterCommitAlways(m, targetAddr, ok) == Erase(m, targetAddr)

\* UnregisterHook: `if (success) s_hookedFunctions.erase(it);`
UnregisterCommit(m, targetAddr, ok) ==
    IF ok THEN Erase(m, targetAddr) ELSE m

\* bool HookEngine::UnregisterHook(void* targetAddr)
UnregisterHook(targetAddr) ==
    IF InvalidUnhookArg(targetAddr) \/ NotHooked(s_hookedFunctions, targetAddr)
    THEN /\ last' = Returned("UnregisterHook", targetAddr, Null, FALSE, {}, {})
         /\ UNCHANGED hookVars
    ELSE \E ok \in UnhookFunctionOutcomes(targetAddr) :
         /\ patched' = UnhookFunction(patched, targetAddr, ok)
         /\ s_hookedFunctions' =
                UnregisterCommit(s_hookedFunctions, targetAddr, ok)
         /\ last' = Returned("UnregisterHook", targetAddr, Null, ok,
                             {targetAddr}, IF ok THEN {targetAddr} ELSE {})
         /\ UNCHANGED <<apple, dobby>>

\* ClearAllHooks: `for (const auto& pair : s_hookedFunctions)
\*                     Implementation::UnhookFunction(pair.first);`
\* The backend's state after the loop over `keys`, where the backend reports
\* success exactly for the targets in okSet.
RECURSIVE UnhookEach(_, _, _)
UnhookEach(p, keys, okSet) ==
    IF keys = {} THEN p
    ELSE LET k == CHOOSE x \in keys : TRUE
         IN  UnhookEach(UnhookFunction(p, k, k \in okSet), keys \ {k}, okSet)

\* The sets of targets the backend may report success for in that loop.
UnhookEachOutcomes(keys) ==
    {S \in SUBSET keys : \A k \in keys : (k \in S) \in UnhookFunctionOutcomes(k)}

\* ClearCommit erasing only the entries the backend removed.
ClearCommitRemovedOnly(m, okSet) == [x \in (DOMAIN m) \ okSet |-> m[x]]

\* ClearAllHooks: `s_hookedFunctions.clear();`, whatever the loop's calls
\* returned (their return values are discarded).
ClearCommit(m, okSet) == EmptyMap

\* The body of ClearAllHooks, reported to `last` as the call `op`.
ClearAllHooksAs(op) ==
    \E okSet \in UnhookEachOutcomes(DOMAIN s_hookedFunctions) :
        /\ patched' = UnhookEach(patched, DOMAIN s_hookedFunctions, okSet)
        /\ s_hookedFunctions' = ClearCommit(s_hookedFunctions, okSet)
        /\ last' = Returned(op, Null, Null, TRUE,
                            DOMAIN s_hookedFunctions, okSet)
        /\ UNCHANGED <<apple, dobby>>

\* void HookEngine::ClearAllHooks()  (void: `ret` is recorded as TRUE)
ClearAllHooks == ClearAllHooksAs("ClearAllHooks")

\* bool HookEngine::Initialize(): `ClearAllHooks(); return true;`
Initialize == ClearAllHooksAs("Initialize")

\* ------------------------------------------------------------------- Spec

\* ------------------------------------------------ the Objective-C runtime
\* The dynamic-dispatch runtime ObjcMethodHook resolves names in. Names are
\* strings, written as sequences of characters. It knows a class A with an
\* instance method f and a subclass B of A with a method :g of its own (a
\* selector may hold colons); B inherits f, so (A, f) and (B, f) resolve to
\* the same Method. No class is named "B:" and no method g.

ClassNames == {<<"A">>, <<"B">>, <<"B", ":">>}

SelectorNames == {<<"f">>, <<"g">>, <<":", "g">>}

\* The runtime's methods: A's f and B's :g.
Methods == {<<"A", "f">>, <<"B", ":", "g">>}

\* nil, a null Class, Method or IMP.
Nil == << >>

\* Class objc_getClass(const char* name): Nil when no such class is loaded.
objc_getClass(className) ==
    IF className \in {<<"A">>, <<"B">>} THEN className ELSE Nil

\* SEL sel_registerName(const char* str): registers the name, never null.
sel_registerName(selectorName) == selectorName

\* Method class_getInstanceMethod(Class cls, SEL name): searches cls and its
\* superclasses; Nil when none implements the selector.
class_getInstanceMethod(cls, selector) ==
    IF selector = <<"f">> /\ cls \in {<<"A">>, <<"B">>} THEN <<"A", "f">>
    ELSE IF selector = <<":", "g">> /\ cls = <<"B">> THEN <<"B", ":", "g">>
    ELSE Nil

\* The implementation each method has when the process starts.
OriginalImp == [m \in Methods |-> IF m = <<"A", "f">> THEN -1 ELSE -2]

\* IMP method_getImplementation(Method m): a null IMP for a null Method.
method_getImplementation(slots, m) ==
    IF m \in DOMAIN slots THEN slots[m] ELSE Null

\* IMP method_setImplementation(Method m, IMP imp): the slots afterwards.
method_setImplementation(slots, m, replacementFn) ==
    IF m \in DOMAIN slots THEN [slots EXCEPT ![m] = replacementFn] ELSE slots

\* No ObjcMethodHook call made yet.
NoMethodCall ==
    [op |-> "none", className |-> << >>, selectorName |-> << >>,
     replacement |-> Null, ret |-> FALSE, original |-> Null,
     pre |-> EmptyMap, preImp |-> OriginalImp]

\* What lastM keeps of the call before the last one.
Earlier(c) ==
    [op |-> c.op, className |-> c.className, selectorName |-> c.selectorName,
     ret |-> c.ret, preImp |-> c.preImp]

\* The static members of ObjcMethodHook and the runtime as the process starts.
InitObjc ==
    /\ s_hookedMethods = EmptyMap
    /\ imp = OriginalImp
    /\ lastM = [call |-> NoMethodCall, prev |-> Earlier(NoMethodCall)]
    /\ s_methodMutex = NoOwner
    /\ originalImp = [th \in Threads |-> Null]
    /\ preSwap = [th \in Threads |-> Null]

\* ------------------------------------------------- call-stack sanitization

\* Nothing sanitized yet, no protection type enabled yet.
InitStack ==
    /\ callStackEnabled = FALSE
    /\ sanitizeCount = 0
    /\ restoreCount = 0
    /\ lastExit = "none"

\* ------------------------------------------------- AntiDetectionSystem
\* The header declares the class and its members; the bodies of its
\* non-template methods are not part of the sources, and are modelled as
\* the design document describes them.

\* Addresses of the bytes of memory the regions lie in.
MemSize == 3

Addresses == 1..MemSize

\* The values of a uint8_t.
ByteValues == 256

\* The memory before any region is protected.
InitialMemory == [a \in Addresses |-> a]

\* m_nextCallbackId after construction.
FirstCallbackId == 1

\* lastUpdate before the first refresh.
Never == -1

\* A thread that is not inside a Notify call.
NoDispatch == [kind |-> "none", snapshot |-> EmptyMap, invoked |-> {},
               current |-> Null, atStart |-> EmptyMap]

\* No AntiDetectionSystem call made yet.
NoAntiCall == [op |-> "none"]

InitAnti ==
    /\ m_nextCallbackId = FirstCallbackId
    /\ m_protectionCallbacks = EmptyMap
    /\ m_detectionCallbacks = EmptyMap
    /\ issued = << >>
    /\ m_mutex = NoOwner
    /\ dispatch = [th \in Threads |-> NoDispatch]
    /\ m_protectedRegions = EmptyMap
    /\ memory = InitialMemory
    /\ now = 0
    /\ lastUpdate = Never
    /\ lastA = NoAntiCall

\* ------------------------------------- MemoryOptimizer, SystemState, Luau

\* No MemoryOptimizer call made yet.
NoCacheCall == [op |-> "none"]

\* The object cache and its statistic as constructed.
InitCache ==
    /\ m_objectCache = EmptyMap
    /\ cacheSize = 0
    /\ lastC = NoCacheCall

\* `SystemStatus()`: every flag false.
SystemStatus ==
    [loggingInitialized |-> FALSE, errorHandlingInitialized |-> FALSE,
     performanceInitialized |-> FALSE, securityInitialized |-> FALSE,
     jailbreakBypassInitialized |-> FALSE, uiInitialized |-> FALSE,
     executionEngineInitialized |-> FALSE, allSystemsInitialized |-> FALSE]

\* No SystemState call made yet.
NoSystemCall == [op |-> "none", at |-> "returned"]

\* The static members of SystemState as constructed.
InitSystem ==
    /\ s_status = SystemStatus
    /\ s_executionEngine = Null
    /\ s_scriptManager = Null
    /\ s_uiController = Null
    /\ lastS = NoSystemCall

\* `static MemoryTracker globalTracker;` and no block allocated.
InitLuau ==
    /\ allocated = 0
    /\ peak = 0
    /\ blocks = EmptyMap
    /\ highest = 0

InitHost == InitCache /\ InitSystem /\ InitLuau

NoCall ==
    [op |-> "none", target |-> Null, hook |-> Null, ret |-> FALSE,
     pre |-> EmptyMap, prePatched |-> EmptyMap,
     calls |-> {}, okSet |-> {}, prevOp |-> "none"]

\* The static members as constructed, the counters and the threads' locals.
InitEngine ==
    /\ s_hookedFunctions = EmptyMap
    /\ patched = EmptyMap
    /\ last = NoCall
    /\ registerSuccesses = 0
    /\ unregisterSuccesses = 0
    /\ s_hookMutex = NoOwner
    /\ success = [th \in Threads |-> FALSE]
    /\ ret = [th \in Threads |-> FALSE]
    /\ logged = [th \in Threads |-> ""]
    /\ InitObjc
    /\ InitStack
    /\ InitAnti
    /\ InitHost

\* Either build, a backend free to accept or refuse each call, and no thread
\* inside the engine.
Init ==
    /\ InitEngine
    /\ apple \in BOOLEAN
    /\ dobby = "any"
    /\ pc = [th \in Threads |-> "idle"]
    /\ callOp = [th \in Threads |-> "none"]
    /\ call = [th \in Threads |-> [target |-> Null, hook |-> Null]]

CallRegisterHook ==
    \E targetAddr \in Targets \cup {Null}, hookAddr \in Hooks \cup {Null} :
        RegisterHook(targetAddr, hookAddr) /\ UNCHANGED <<netVars, threadVars, restVars>>

CallUnregisterHook ==
    \E targetAddr \in Targets \cup {Null} :
        UnregisterHook(targetAddr) /\ UNCHANGED <<netVars, threadVars, restVars>>

CallClearAllHooks == ClearAllHooks /\ UNCHANGED <<netVars, threadVars, restVars>>

CallInitialize == Initialize /\ UNCHANGED <<netVars, threadVars, restVars>>

Next ==
    \/ CallRegisterHook
    \/ CallUnregisterHook
    \/ CallClearAllHooks
    \/ CallInitialize

Spec == Init /\ [][Next]_vars

\* ------------------------------------------------------- claims under Spec

\* C1: UnregisterHook(t) on a tracked target t passes t to the backend and
\* returns what the backend reported; the entry of t is erased only when the
\* backend removal succeeded, and when it failed UnregisterHook returns false
\* and the registry (t's target and replacement included) is as before.
C1_UnregisterFollowsBackend ==
    (last.op = "UnregisterHook" /\ Find(last.pre, last.target)) =>
        /\ last.calls = {last.target}
        /\ last.ret = (last.target \in last.okSet)
        /\ last.target \in last.okSet =>
               s_hookedFunctions = Erase(last.pre, last.target)
        /\ last.target \notin last.okSet =>
               /\ last.ret = FALSE
               /\ s_hookedFunctions = last.pre
               /\ s_hookedFunctions[last.target] = last.pre[last.target]

\* The backend refused to remove a tracked target, beside another entry.
C1_Witness ==
    /\ last.op = "UnregisterHook"
    /\ Find(last.pre, last.target)
    /\ last.calls = {last.target}
    /\ last.okSet = {}
    /\ Cardinality(DOMAIN last.pre) > 1

\* C2: every target the backend still has patched is tracked in the registry.
C2_PatchedIsTracked ==
    \A t \in DOMAIN patched : Find(s_hookedFunctions, t)

\* C3: ClearAllHooks passes every tracked target to the backend and erases
\* exactly the entries whose backend removal succeeded; an entry whose
\* removal failed is still tracked, unchanged, when ClearAllHooks returns.
C3_ClearKeepsFailedEntries ==
    last.op = "ClearAllHooks" =>
        /\ last.calls = DOMAIN last.pre
        /\ \A t \in DOMAIN last.pre :
               IF t \in last.okSet
               THEN ~Find(s_hookedFunctions, t)
               ELSE /\ Find(s_hookedFunctions, t)
                    /\ s_hookedFunctions[t] = last.pre[t]

\* C4: RegisterHook(t, r) on a tracked target t returns false, passes nothing
\* to the backend and leaves every entry of the registry as it was.
C4_DuplicateRegisterRejected ==
    (last.op = "RegisterHook" /\ Find(last.pre, last.target)) =>
        /\ last.ret = FALSE
        /\ last.calls = {}
        /\ s_hookedFunctions = last.pre
        /\ patched = last.prePatched

\* A second RegisterHook on a tracked target, with another replacement.
C4_Witness ==
    /\ last.op = "RegisterHook"
    /\ Find(last.pre, last.target)
    /\ last.hook # Null
    /\ last.hook # last.pre[last.target]
    /\ Cardinality(DOMAIN last.pre) > 1

\* C5: when the backend install fails inside RegisterHook(t, r), RegisterHook
\* returns false and the registry is as before the call: t is not tracked.
C5_FailedInstallLeavesRegistry ==
    (last.op = "RegisterHook" /\ last.calls # {} /\ last.okSet = {}) =>
        /\ last.ret = FALSE
        /\ s_hookedFunctions = last.pre
        /\ ~Find(s_hookedFunctions, last.target)

\* The backend refused an install while another target was tracked.
C5_Witness ==
    /\ last.op = "RegisterHook"
    /\ last.calls = {last.target}
    /\ last.okSet = {}
    /\ last.hook # Null
    /\ last.pre # EmptyMap

\* C6: RegisterHook with a null target or a null replacement returns false,
\* passes nothing to the backend and leaves the registry as it was.
C6_NullArgumentRejected ==
    (last.op = "RegisterHook" /\ (last.target = Null \/ last.hook = Null)) =>
        /\ last.ret = FALSE
        /\ last.calls = {}
        /\ s_hookedFunctions = last.pre
        /\ patched = last.prePatched

\* A null replacement for an untracked, non-null target.
C6_Witness ==
    /\ last.op = "RegisterHook"
    /\ last.target # Null
    /\ last.hook = Null
    /\ ~Find(last.pre, last.target)
    /\ last.pre # EmptyMap

\* C7: UnregisterHook(t) on an untracked target t (a null t included) returns
\* false, passes nothing to the backend and leaves the registry as it was.
C7_UnregisterUntrackedRejected ==
    (last.op = "UnregisterHook" /\ ~Find(last.pre, last.target)) =>
        /\ last.ret = FALSE
        /\ last.calls = {}
        /\ s_hookedFunctions = last.pre
        /\ patched = last.prePatched

\* An untracked, non-null target beside a tracked one.
C7_Witness ==
    /\ last.op = "UnregisterHook"
    /\ last.target # Null
    /\ ~Find(last.pre, last.target)
    /\ last.pre # EmptyMap

\* C9: after Initialize the registry tracks nothing, whatever it tracked
\* before; an Initialize that follows an Initialize leaves the registry and
\* the backend as the first one left them.
C9_InitializeClearsIdempotent ==
    last.op = "Initialize" =>
        /\ s_hookedFunctions = EmptyMap
        /\ last.prevOp = "Initialize" =>
               /\ s_hookedFunctions = last.pre
               /\ patched = last.prePatched

\* Initialize twice in a row, the first having left a target patched.
C9_Witness ==
    /\ last.op = "Initialize"
    /\ last.prevOp = "Initialize"
    /\ patched # EmptyMap

\* --------------------------------------------------------------- SpecNet

\* RegisterHook, counted when it returns true.
CountRegisterHook ==
    /\ registerSuccesses + unregisterSuccesses < MaxCalls
    /\ \E targetAddr \in Targets \cup {Null}, hookAddr \in Hooks \cup {Null} :
           RegisterHook(targetAddr, hookAddr)
    /\ registerSuccesses' = registerSuccesses + (IF last'.ret THEN 1 ELSE 0)
    /\ UNCHANGED <<unregisterSuccesses, threadVars, restVars>>

\* UnregisterHook, counted when it returns true.
CountUnregisterHook ==
    /\ registerSuccesses + unregisterSuccesses < MaxCalls
    /\ \E targetAddr \in Targets \cup {Null} : UnregisterHook(targetAddr)
    /\ unregisterSuccesses' = unregisterSuccesses + (IF last'.ret THEN 1 ELSE 0)
    /\ UNCHANGED <<registerSuccesses, threadVars, restVars>>

NextNet == CountRegisterHook \/ CountUnregisterHook

SpecNet == Init /\ [][NextNet]_vars

\* C8: after any sequence of RegisterHook and UnregisterHook calls the
\* registry tracks as many entries as RegisterHook calls returned true minus
\* UnregisterHook calls that returned true.
C8_SizeIsNetSuccesses ==
    Cardinality(DOMAIN s_hookedFunctions) =
        registerSuccesses - unregisterSuccesses

\* Two installs on distinct targets, one of them removed again, and a call
\* that returned false.
C8_Witness ==
    /\ registerSuccesses = 2
    /\ unregisterSuccesses = 1
    /\ last.ret = FALSE
    /\ Cardinality(DOMAIN s_hookedFunctions) = 1

\* -------------------------------------------------------------- SpecRace
\* RegisterHook executed by concurrent threads, one step per access to the
\* shared state: the argument check, std::lock_guard's lock, the find, the
\* backend call and the commit with the unlock at the end of the scope.

\* LockAvailable of a RegisterHook that does not wait for the mutex.
LockAvailableAlways(owner) == TRUE

\* std::lock_guard<std::mutex> lock(s_hookMutex) can take the mutex.
LockAvailable(owner) == owner = NoOwner

\* Another thread is about to read or write s_hookedFunctions. The map is not
\* thread-safe: a write that is not serialised with that access is a data
\* race, and leaves the map in any state.
Racing(th) ==
    \E o \in Threads \ {th} :
        /\ callOp[o] \in {"RegisterHook", "UnregisterHook", "ClearAllHooks",
                          "Initialize"}
        /\ pc[o] \in {"find", "commit"}

\* The maps a write by thread th that would store `new` may leave.
Written(th, new) ==
    IF Racing(th) THEN Maps(Targets, Hooks) ELSE {new}

\* `if (!targetAddr || !hookAddr) return false;`
RegisterHook_Check(th) ==
    /\ callOp[th] = "RegisterHook"
    /\ pc[th] = "entry"
    /\ IF InvalidHookArgs(call[th].target, call[th].hook)
       THEN /\ pc' = [pc EXCEPT ![th] = "returned"]
            /\ ret' = [ret EXCEPT ![th] = FALSE]
            /\ logged' = [logged EXCEPT ![th] = "Invalid address for hook"]
       ELSE /\ pc' = [pc EXCEPT ![th] = "lock"]
            /\ UNCHANGED <<ret, logged>>
    /\ UNCHANGED <<hookVars, last, netVars, s_hookMutex, call, success, callOp,
                   restVars>>

\* `std::lock_guard<std::mutex> lock(s_hookMutex);`
RegisterHook_Lock(th) ==
    /\ callOp[th] = "RegisterHook"
    /\ pc[th] = "lock"
    /\ LockAvailable(s_hookMutex)
    /\ s_hookMutex' = th
    /\ pc' = [pc EXCEPT ![th] = "find"]
    /\ UNCHANGED <<hookVars, last, netVars, call, success, ret, callOp, logged,
                   restVars>>

\* `if (s_hookedFunctions.find(targetAddr) != end) return false;`
RegisterHook_Find(th) ==
    /\ callOp[th] = "RegisterHook"
    /\ pc[th] = "find"
    /\ IF AlreadyHooked(s_hookedFunctions, call[th].target)
       THEN /\ pc' = [pc EXCEPT ![th] = "returned"]
            /\ ret' = [ret EXCEPT ![th] = FALSE]
            /\ logged' = [logged EXCEPT ![th] = "Target function already hooked"]
            /\ s_hookMutex' = NoOwner
       ELSE /\ pc' = [pc EXCEPT ![th] = "backend"]
            /\ UNCHANGED <<ret, logged, s_hookMutex>>
    /\ UNCHANGED <<hookVars, last, netVars, call, success, callOp, restVars>>

\* `bool success = Implementation::HookFunction(targetAddr, hookAddr, ...);`
RegisterHook_Backend(th) ==
    /\ callOp[th] = "RegisterHook"
    /\ pc[th] = "backend"
    /\ \E ok \in HookFunctionOutcomes(call[th].target, call[th].hook) :
           /\ patched' = HookFunction(patched, call[th].target, call[th].hook, ok)
           /\ success' = [success EXCEPT ![th] = ok]
    /\ pc' = [pc EXCEPT ![th] = "commit"]
    /\ UNCHANGED <<s_hookedFunctions, apple, dobby, last, netVars,
                   s_hookMutex, call, ret, callOp, logged, restVars>>

\* `if (success) s_hookedFunctions[targetAddr] = hookAddr; return success;`
RegisterHook_Commit(th) ==
    /\ callOp[th] = "RegisterHook"
    /\ pc[th] = "commit"
    /\ s_hookedFunctions' \in
           Written(th, RegisterCommit(s_hookedFunctions, call[th].target,
                                      call[th].hook, success[th]))
    /\ ret' = [ret EXCEPT ![th] = success[th]]
    /\ logged' = [logged EXCEPT ![th] =
                      IF success[th] THEN "Successfully hooked function"
                      ELSE "Failed to hook function"]
    /\ s_hookMutex' = NoOwner
    /\ pc' = [pc EXCEPT ![th] = "returned"]
    /\ UNCHANGED <<patched, apple, dobby, last, netVars, call, success, callOp,
                   restVars>>

\* Each thread has called RegisterHook on a target of its own, with any
\* non-null replacement; the backend accepts every install.
InitRace ==
    /\ InitEngine
    /\ apple = TRUE
    /\ dobby = "accepting"
    /\ pc = [th \in Threads |-> "entry"]
    /\ callOp = [th \in Threads |-> "RegisterHook"]
    /\ call \in {c \in [Threads -> [target : Targets, hook : Hooks]] :
                    \A a, b \in Threads : a # b => c[a].target # c[b].target}

NextRace ==
    \E th \in Threads :
        \/ RegisterHook_Check(th)
        \/ RegisterHook_Lock(th)
        \/ RegisterHook_Find(th)
        \/ RegisterHook_Backend(th)
        \/ RegisterHook_Commit(th)

SpecRace == InitRace /\ [][NextRace]_vars

\* C10: when every thread has returned from its RegisterHook, each on a
\* target of its own and with an accepting backend, every call returned true
\* and the registry holds exactly the threads' entries, one per thread.
C10_NoLostRegistration ==
    (\A th \in Threads : pc[th] = "returned") =>
        /\ \A th \in Threads : ret[th] = TRUE
        /\ DOMAIN s_hookedFunctions = {call[th].target : th \in Threads}
        /\ Cardinality(DOMAIN s_hookedFunctions) = Cardinality(Threads)
        /\ \A th \in Threads :
               s_hookedFunctions[call[th].target] = call[th].hook

\* Every thread has returned, two of them having installed different hooks.
C10_Witness ==
    /\ \A th \in Threads : pc[th] = "returned"
    /\ \E a, b \in Threads : call[a].hook # call[b].hook
    /\ DOMAIN patched = Targets

\* ------------------------------------------------------------ SpecThreads
\* Two threads, each making one RegisterHook or UnregisterHook call, on any
\* targets (the same one or different ones), with a backend free to accept or
\* refuse each call.

\* `if (!targetAddr) return false;`
UnregisterHook_Check(th) ==
    /\ callOp[th] = "UnregisterHook"
    /\ pc[th] = "entry"
    /\ IF InvalidUnhookArg(call[th].target)
       THEN /\ pc' = [pc EXCEPT ![th] = "returned"]
            /\ ret' = [ret EXCEPT ![th] = FALSE]
            /\ logged' = [logged EXCEPT ![th] = "Invalid address for unhook"]
       ELSE /\ pc' = [pc EXCEPT ![th] = "lock"]
            /\ UNCHANGED <<ret, logged>>
    /\ UNCHANGED <<hookVars, last, netVars, s_hookMutex, call, success,
                   callOp, restVars>>

\* `std::lock_guard<std::mutex> lock(s_hookMutex);`
UnregisterHook_Lock(th) ==
    /\ callOp[th] = "UnregisterHook"
    /\ pc[th] = "lock"
    /\ LockAvailable(s_hookMutex)
    /\ s_hookMutex' = th
    /\ pc' = [pc EXCEPT ![th] = "find"]
    /\ UNCHANGED <<hookVars, last, netVars, call, success, ret, callOp,
                   logged, restVars>>

\* `if (it == s_hookedFunctions.end()) return false;`
UnregisterHook_Find(th) ==
    /\ callOp[th] = "UnregisterHook"
    /\ pc[th] = "find"
    /\ IF NotHooked(s_hookedFunctions, call[th].target)
       THEN /\ pc' = [pc EXCEPT ![th] = "returned"]
            /\ ret' = [ret EXCEPT ![th] = FALSE]
            /\ logged' = [logged EXCEPT ![th] = "Target function not hooked"]
            /\ s_hookMutex' = NoOwner
       ELSE /\ pc' = [pc EXCEPT ![th] = "backend"]
            /\ UNCHANGED <<ret, logged, s_hookMutex>>
    /\ UNCHANGED <<hookVars, last, netVars, call, success, callOp, restVars>>

\* `bool success = Implementation::UnhookFunction(targetAddr);`
UnregisterHook_Backend(th) ==
    /\ callOp[th] = "UnregisterHook"
    /\ pc[th] = "backend"
    /\ \E ok \in UnhookFunctionOutcomes(call[th].target) :
           /\ patched' = UnhookFunction(patched, call[th].target, ok)
           /\ success' = [success EXCEPT ![th] = ok]
    /\ pc' = [pc EXCEPT ![th] = "commit"]
    /\ UNCHANGED <<s_hookedFunctions, apple, dobby, last, netVars,
                   s_hookMutex, call, ret, callOp, logged, restVars>>

\* `if (success) s_hookedFunctions.erase(it); return success;`
UnregisterHook_Commit(th) ==
    /\ callOp[th] = "UnregisterHook"
    /\ pc[th] = "commit"
    /\ s_hookedFunctions' \in
           Written(th, UnregisterCommit(s_hookedFunctions, call[th].target,
                                        success[th]))
    /\ ret' = [ret EXCEPT ![th] = success[th]]
    /\ logged' = [logged EXCEPT ![th] =
                      IF success[th] THEN "Successfully unhooked function"
                      ELSE "Failed to unhook function"]
    /\ s_hookMutex' = NoOwner
    /\ pc' = [pc EXCEPT ![th] = "returned"]
    /\ UNCHANGED <<patched, apple, dobby, last, netVars, call, success,
                   callOp, restVars>>

\* The two threads that make a call.
Pair == {th \in Threads : th <= 2}

\* The calls a thread may be making.
HookCalls ==
    {<<"RegisterHook", [target |-> t, hook |-> h]>> : t \in Targets, h \in Hooks}
    \cup {<<"UnregisterHook", [target |-> t, hook |-> Null]>> : t \in Targets}

\* Both threads of Pair have just called; the other threads stay idle.
InitThreads ==
    /\ InitEngine
    /\ apple = TRUE
    /\ dobby = "any"
    /\ \E c \in [Pair -> HookCalls] :
        /\ callOp = [th \in Threads |-> IF th \in Pair THEN c[th][1] ELSE "none"]
        /\ call = [th \in Threads |->
                       IF th \in Pair THEN c[th][2]
                       ELSE [target |-> Null, hook |-> Null]]
    /\ pc = [th \in Threads |-> IF th \in Pair THEN "entry" ELSE "idle"]

NextThreads ==
    \E th \in Threads :
        \/ RegisterHook_Check(th)
        \/ RegisterHook_Lock(th)
        \/ RegisterHook_Find(th)
        \/ RegisterHook_Backend(th)
        \/ RegisterHook_Commit(th)
        \/ UnregisterHook_Check(th)
        \/ UnregisterHook_Lock(th)
        \/ UnregisterHook_Find(th)
        \/ UnregisterHook_Backend(th)
        \/ UnregisterHook_Commit(th)

SpecThreads == InitThreads /\ [][NextThreads]_vars

\* Threads a and b are both in (or back from) RegisterHook on one target.
SameTargetRegisters(a, b) ==
    /\ a # b
    /\ callOp[a] = "RegisterHook"
    /\ callOp[b] = "RegisterHook"
    /\ call[a].target = call[b].target

\* C11 as stated: with two threads in RegisterHook on the same target the
\* backend install is never in flight twice at once, at most one call
\* succeeds, and the other call fails as already hooked.
C11_LoserFailsAsAlreadyHooked ==
    \A a, b \in Threads :
        SameTargetRegisters(a, b) =>
            /\ ~(pc[a] = "backend" /\ pc[b] = "backend")
            /\ (pc[a] = "returned" /\ pc[b] = "returned") =>
                   /\ ~(ret[a] /\ ret[b])
                   /\ ret[a] => logged[b] = "Target function already hooked"

\* C11, amended: with two threads in RegisterHook on the same target the
\* backend install is never in flight twice at once and at most one call
\* succeeds; the other call fails as already hooked, or, when the backend
\* refused its own install, as a failed install.
C11_AtMostOneInstall ==
    \A a, b \in Threads :
        SameTargetRegisters(a, b) =>
            /\ ~(pc[a] = "backend" /\ pc[b] = "backend")
            /\ (pc[a] = "returned" /\ pc[b] = "returned") =>
                   /\ ~(ret[a] /\ ret[b])
                   /\ ret[a] =>
                          \/ logged[b] = "Target function already hooked"
                          \/ /\ logged[b] = "Failed to hook function"
                             /\ success[b] = FALSE

\* Both calls are back: one installed its hook, the other found the target
\* already hooked.
C11_Witness ==
    \E a, b \in Threads :
        /\ SameTargetRegisters(a, b)
        /\ pc[a] = "returned" /\ pc[b] = "returned"
        /\ ret[a] /\ ~ret[b]
        /\ call[a].hook # call[b].hook
        /\ logged[b] = "Target function already hooked"

\* C12: a thread whose backend call is in flight does not hold the registry
\* mutex.
C12_BackendCallOutsideLock ==
    \A th \in Threads : pc[th] = "backend" => s_hookMutex # th

\* ------------------------------------- ObjcMethodHook, one whole call each

\* ObjcSupported of a build that compiles the Apple branch everywhere.
ObjcSupportedAlways == TRUE

\* `#ifdef __APPLE__` in HookMethod, UnhookMethod and ClearAllHooks.
ObjcSupported == apple

\* `std::string methodKey = className + "::" + selectorName;`
MethodKey(className, selectorName) ==
    className \o <<":", ":">> \o selectorName

\* MethodAlreadyHooked without the lookup.
MethodAlreadyHookedNever(m, methodKey) == FALSE

\* HookMethod: `s_hookedMethods.find(methodKey) != s_hookedMethods.end()`
MethodAlreadyHooked(m, methodKey) == Find(m, methodKey)

\* HookMethod: `if (!cls)`
ClassMissing(cls) == cls = Nil

\* HookMethod: `if (!selector)`
SelectorMissing(selector) == selector = Nil

\* MethodMissing without the null check of the Method.
MethodMissingNever(method) == FALSE

\* HookMethod: `if (!method)`
MethodMissing(method) == method = Nil

\* HookMethod: `if (originalFn) *originalFn = (void*)originalImp;`
\* What the caller gets back: nothing when it passed no originalFn.
HandedBack(originalFn, captured) == IF originalFn THEN captured ELSE Null

\* HookMethod: `s_hookedMethods[methodKey] = std::make_pair(cls, selector);`
MethodEntry(cls, selector) == [cls |-> cls, sel |-> selector]

\* What lastM records of an ObjcMethodHook call that returned.
ReturnedM(name, className, selectorName, replacementFn, result, original) ==
    [call |-> [op |-> name, className |-> className,
               selectorName |-> selectorName, replacement |-> replacementFn,
               ret |-> result, original |-> original,
               pre |-> s_hookedMethods, preImp |-> imp],
     prev |-> Earlier(lastM.call)]

\* bool ObjcMethodHook::HookMethod(className, selectorName, replacementFn,
\*                                 originalFn)
HookMethod(className, selectorName, replacementFn, originalFn) ==
    LET methodKey == MethodKey(className, selectorName)
        cls == objc_getClass(className)
        selector == sel_registerName(selectorName)
        method == class_getInstanceMethod(cls, selector)
        captured == method_getImplementation(imp, method)
    IN  IF \/ ~ObjcSupported
           \/ MethodAlreadyHooked(s_hookedMethods, methodKey)
           \/ ClassMissing(cls)
           \/ SelectorMissing(selector)
           \/ MethodMissing(method)
        THEN /\ lastM' = ReturnedM("HookMethod", className, selectorName,
                                   replacementFn, FALSE, Null)
             /\ UNCHANGED <<s_hookedMethods, imp>>
        ELSE /\ imp' = method_setImplementation(imp, method, replacementFn)
             /\ s_hookedMethods' =
                    Put(s_hookedMethods, methodKey, MethodEntry(cls, selector))
             /\ lastM' = ReturnedM("HookMethod", className, selectorName,
                                   replacementFn, TRUE,
                                   HandedBack(originalFn, captured))

\* MethodNotHooked without the lookup.
MethodNotHookedNever(m, methodKey) == FALSE

\* UnhookMethod: `it == s_hookedMethods.end()`
MethodNotHooked(m, methodKey) == ~Find(m, methodKey)

\* bool ObjcMethodHook::UnhookMethod(className, selectorName): the entry is
\* erased; the implementation slot is left as it is.
UnhookMethod(className, selectorName) ==
    LET methodKey == MethodKey(className, selectorName)
    IN  IF ~ObjcSupported \/ MethodNotHooked(s_hookedMethods, methodKey)
        THEN /\ lastM' = ReturnedM("UnhookMethod", className, selectorName,
                                   Null, FALSE, Null)
             /\ UNCHANGED <<s_hookedMethods, imp>>
        ELSE /\ s_hookedMethods' = Erase(s_hookedMethods, methodKey)
             /\ lastM' = ReturnedM("UnhookMethod", className, selectorName,
                                   Null, TRUE, Null)
             /\ UNCHANGED imp

\* void ObjcMethodHook::ClearAllHooks(): `s_hookedMethods.clear();`
\* (void: `ret` is recorded as TRUE)
ObjcClearAllHooks ==
    /\ s_hookedMethods' = IF ObjcSupported THEN EmptyMap ELSE s_hookedMethods
    /\ lastM' = ReturnedM("ClearAllHooks", << >>, << >>, Null, TRUE, Null)
    /\ UNCHANGED imp

\* What ObjcMethodHook's whole calls never touch.
objcRest ==
    <<hookVars, last, netVars, threadVars, stackVars, antiVars, hostVars,
      s_methodMutex, originalImp, preSwap>>

CallHookMethod ==
    \E className \in ClassNames, selectorName \in SelectorNames,
       replacementFn \in Hooks, originalFn \in BOOLEAN :
        /\ HookMethod(className, selectorName, replacementFn, originalFn)
        /\ UNCHANGED objcRest

CallUnhookMethod ==
    \E className \in ClassNames, selectorName \in SelectorNames :
        UnhookMethod(className, selectorName) /\ UNCHANGED objcRest

CallObjcClearAllHooks == ObjcClearAllHooks /\ UNCHANGED objcRest

NextObjc ==
    \/ CallHookMethod
    \/ CallUnhookMethod
    \/ CallObjcClearAllHooks

\* Either build; one caller issuing any sequence of ObjcMethodHook calls.
SpecObjc == Init /\ [][NextObjc]_vars

\* ---------------------------------------------------- claims under SpecObjc

\* The Method the names of a recorded call resolve to, or Nil.
MethodOf(c) ==
    class_getInstanceMethod(objc_getClass(c.className),
                            sel_registerName(c.selectorName))

\* C13: when a successful UnhookMethod(type, member) follows a successful
\* HookMethod(type, member, replacement), the method's slot holds the
\* implementation it held just before HookMethod, and the entry is gone.
C13_UnhookRestoresOriginal ==
    ( /\ lastM.call.op = "UnhookMethod" /\ lastM.call.ret
      /\ lastM.prev.op = "HookMethod" /\ lastM.prev.ret
      /\ lastM.prev.className = lastM.call.className
      /\ lastM.prev.selectorName = lastM.call.selectorName ) =>
        /\ imp[MethodOf(lastM.call)] = lastM.prev.preImp[MethodOf(lastM.call)]
        /\ ~Find(s_hookedMethods,
                 MethodKey(lastM.call.className, lastM.call.selectorName))

\* C14: the entry a successful HookMethod stores has its
\* originalImplementation populated with the implementation the slot held
\* before the swap.
C14_EntryHoldsOriginal ==
    (lastM.call.op = "HookMethod" /\ lastM.call.ret) =>
        LET entry == s_hookedMethods[MethodKey(lastM.call.className,
                                               lastM.call.selectorName)]
        IN  /\ "originalImplementation" \in DOMAIN entry
            /\ entry.originalImplementation =
                   lastM.call.preImp[MethodOf(lastM.call)]

\* C16: HookMethod on a type the runtime does not know, or on a member the
\* type does not have, returns false, swaps no implementation slot and adds
\* no entry.
C16_UnresolvedNotHooked ==
    ( /\ lastM.call.op = "HookMethod"
      /\ \/ objc_getClass(lastM.call.className) = Nil
         \/ MethodOf(lastM.call) = Nil ) =>
        /\ lastM.call.ret = FALSE
        /\ imp = lastM.call.preImp
        /\ s_hookedMethods = lastM.call.pre

\* On an Apple build: a known class that lacks the member, another method
\* being hooked.
C16_Witness ==
    /\ apple
    /\ lastM.call.op = "HookMethod"
    /\ objc_getClass(lastM.call.className) # Nil
    /\ MethodOf(lastM.call) = Nil
    /\ lastM.call.pre # EmptyMap

\* C17: HookMethod on a pair that is already tracked returns false, does not
\* swap the slot again and leaves the registry, the pair's entry included,
\* as it was.
C17_TrackedPairNotRehooked ==
    ( /\ lastM.call.op = "HookMethod"
      /\ Find(lastM.call.pre,
              MethodKey(lastM.call.className, lastM.call.selectorName)) ) =>
        /\ lastM.call.ret = FALSE
        /\ imp = lastM.call.preImp
        /\ s_hookedMethods = lastM.call.pre

\* A second HookMethod on a tracked pair, with a replacement the slot does
\* not hold.
C17_Witness ==
    /\ lastM.call.op = "HookMethod"
    /\ Find(lastM.call.pre,
            MethodKey(lastM.call.className, lastM.call.selectorName))
    /\ lastM.call.replacement # imp[MethodOf(lastM.call)]

C19_UnsupportedPlatformFails ==
    ~apple =>
        /\ lastM.call.op \in {"HookMethod", "UnhookMethod"} =>
               lastM.call.ret = FALSE
        /\ s_hookedMethods = EmptyMap
        /\ imp = OriginalImp

\* Without the runtime: HookMethod on names that would resolve, after an
\* UnhookMethod.
C19_Witness ==
    /\ ~apple
    /\ lastM.call.op = "HookMethod"
    /\ lastM.call.className = <<"A">>
    /\ lastM.call.selectorName = <<"f">>
    /\ lastM.prev.op = "UnhookMethod"

\* ------------------------------------------ ObjcMethodHook, thread by thread
\*
\* HookMethod and UnhookMethod as the steps of a thread: the lock_guard on
\* s_methodMutex at the top of the Apple branch, the lookup, the runtime
\* calls, the store or erase with the unlock at the end of the scope.
\* call[th] holds the thread's arguments; originalImp[th] is HookMethod's
\* local `originalImp`, and preSwap[th] records what the slot held when the
\* thread called method_setImplementation.

\* The variables no ObjcMethodHook step touches.
objcStepRest ==
    <<hookVars, last, netVars, stackVars, antiVars, hostVars, s_hookMutex,
      success, lastM, callOp, call>>

\* The Method thread th's arguments resolve to, or Nil.
MethodOfThread(th) ==
    class_getInstanceMethod(objc_getClass(call[th].className),
                            sel_registerName(call[th].selectorName))

\* `#else ... return false;`
HookMethod_Unsupported(th) ==
    /\ callOp[th] = "HookMethod"
    /\ pc[th] = "entry"
    /\ ~ObjcSupported
    /\ pc' = [pc EXCEPT ![th] = "returned"]
    /\ ret' = [ret EXCEPT ![th] = FALSE]
    /\ logged' = [logged EXCEPT ![th] =
                      "Method swizzling not supported on this platform"]
    /\ UNCHANGED <<objcStepRest, s_methodMutex, s_hookedMethods, imp,
                   originalImp, preSwap>>

\* `std::lock_guard<std::mutex> lock(s_methodMutex);`
HookMethod_Lock(th) ==
    /\ callOp[th] = "HookMethod"
    /\ pc[th] = "entry"
    /\ ObjcSupported
    /\ LockAvailable(s_methodMutex)
    /\ s_methodMutex' = th
    /\ pc' = [pc EXCEPT ![th] = "find"]
    /\ UNCHANGED <<objcStepRest, ret, logged, s_hookedMethods, imp,
                   originalImp, preSwap>>

\* `if (s_hookedMethods.find(methodKey) != s_hookedMethods.end()) return false;`
HookMethod_Find(th) ==
    /\ callOp[th] = "HookMethod"
    /\ pc[th] = "find"
    /\ IF MethodAlreadyHooked(s_hookedMethods,
                              MethodKey(call[th].className,
                                        call[th].selectorName))
       THEN /\ pc' = [pc EXCEPT ![th] = "returned"]
            /\ ret' = [ret EXCEPT ![th] = FALSE]
            /\ logged' = [logged EXCEPT ![th] = "already hooked"]
            /\ s_methodMutex' = NoOwner
       ELSE /\ pc' = [pc EXCEPT ![th] = "resolve"]
            /\ UNCHANGED <<ret, logged, s_methodMutex>>
    /\ UNCHANGED <<objcStepRest, s_hookedMethods, imp, originalImp, preSwap>>

\* objc_getClass, sel_registerName, class_getInstanceMethod and their null
\* checks.
HookMethod_Resolve(th) ==
    /\ callOp[th] = "HookMethod"
    /\ pc[th] = "resolve"
    /\ LET cls == objc_getClass(call[th].className)
           selector == sel_registerName(call[th].selectorName)
           method == class_getInstanceMethod(cls, selector)
       IN  IF ClassMissing(cls) \/ SelectorMissing(selector)
              \/ MethodMissing(method)
           THEN /\ pc' = [pc EXCEPT ![th] = "returned"]
                /\ ret' = [ret EXCEPT ![th] = FALSE]
                /\ logged' = [logged EXCEPT ![th] =
                                  IF ClassMissing(cls) THEN "Class not found"
                                  ELSE IF SelectorMissing(selector)
                                       THEN "Selector registration failed"
                                       ELSE "Method not found in class"]
                /\ s_methodMutex' = NoOwner
           ELSE /\ pc' = [pc EXCEPT ![th] = "get"]
                /\ UNCHANGED <<ret, logged, s_methodMutex>>
    /\ UNCHANGED <<objcStepRest, s_hookedMethods, imp, originalImp, preSwap>>

\* `IMP originalImp = method_getImplementation(method);`
\* `if (originalFn) *originalFn = (void*)originalImp;`
HookMethod_Get(th) ==
    /\ callOp[th] = "HookMethod"
    /\ pc[th] = "get"
    /\ originalImp' = [originalImp EXCEPT ![th] =
                           method_getImplementation(imp, MethodOfThread(th))]
    /\ pc' = [pc EXCEPT ![th] = "set"]
    /\ UNCHANGED <<objcStepRest, ret, logged, s_methodMutex, s_hookedMethods,
                   imp, preSwap>>

\* `method_setImplementation(method, (IMP)replacementFn);`
HookMethod_Set(th) ==
    /\ callOp[th] = "HookMethod"
    /\ pc[th] = "set"
    /\ preSwap' = [preSwap EXCEPT ![th] =
                       method_getImplementation(imp, MethodOfThread(th))]
    /\ imp' = method_setImplementation(imp, MethodOfThread(th),
                                       call[th].replacement)
    /\ pc' = [pc EXCEPT ![th] = "store"]
    /\ UNCHANGED <<objcStepRest, ret, logged, s_methodMutex, s_hookedMethods,
                   originalImp>>

\* `s_hookedMethods[methodKey] = std::make_pair(cls, selector); return true;`
HookMethod_Store(th) ==
    /\ callOp[th] = "HookMethod"
    /\ pc[th] = "store"
    /\ s_hookedMethods' =
           Put(s_hookedMethods,
               MethodKey(call[th].className, call[th].selectorName),
               MethodEntry(objc_getClass(call[th].className),
                           sel_registerName(call[th].selectorName)))
    /\ ret' = [ret EXCEPT ![th] = TRUE]
    /\ logged' = [logged EXCEPT ![th] = "Successfully hooked method"]
    /\ s_methodMutex' = NoOwner
    /\ pc' = [pc EXCEPT ![th] = "returned"]
    /\ UNCHANGED <<objcStepRest, imp, originalImp, preSwap>>

\* `#else ... return false;`
UnhookMethod_Unsupported(th) ==
    /\ callOp[th] = "UnhookMethod"
    /\ pc[th] = "entry"
    /\ ~ObjcSupported
    /\ pc' = [pc EXCEPT ![th] = "returned"]
    /\ ret' = [ret EXCEPT ![th] = FALSE]
    /\ logged' = [logged EXCEPT ![th] =
                      "Method swizzling not supported on this platform"]
    /\ UNCHANGED <<objcStepRest, s_methodMutex, s_hookedMethods, imp,
                   originalImp, preSwap>>

\* `std::lock_guard<std::mutex> lock(s_methodMutex);`
UnhookMethod_Lock(th) ==
    /\ callOp[th] = "UnhookMethod"
    /\ pc[th] = "entry"
    /\ ObjcSupported
    /\ LockAvailable(s_methodMutex)
    /\ s_methodMutex' = th
    /\ pc' = [pc EXCEPT ![th] = "find"]
    /\ UNCHANGED <<objcStepRest, ret, logged, s_hookedMethods, imp,
                   originalImp, preSwap>>

\* `if (it == s_hookedMethods.end()) return false;`
UnhookMethod_Find(th) ==
    /\ callOp[th] = "UnhookMethod"
    /\ pc[th] = "find"
    /\ IF MethodNotHooked(s_hookedMethods,
                          MethodKey(call[th].className, call[th].selectorName))
       THEN /\ pc' = [pc EXCEPT ![th] = "returned"]
            /\ ret' = [ret EXCEPT ![th] = FALSE]
            /\ logged' = [logged EXCEPT ![th] = "not hooked"]
            /\ s_methodMutex' = NoOwner
       ELSE /\ pc' = [pc EXCEPT ![th] = "erase"]
            /\ UNCHANGED <<ret, logged, s_methodMutex>>
    /\ UNCHANGED <<objcStepRest, s_hookedMethods, imp, originalImp, preSwap>>

\* `s_hookedMethods.erase(it); return true;`
UnhookMethod_Erase(th) ==
    /\ callOp[th] = "UnhookMethod"
    /\ pc[th] = "erase"
    /\ s_hookedMethods' =
           Erase(s_hookedMethods,
                 MethodKey(call[th].className, call[th].selectorName))
    /\ ret' = [ret EXCEPT ![th] = TRUE]
    /\ logged' = [logged EXCEPT ![th] =
           "removed from tracking (original implementation not restored)"]
    /\ s_methodMutex' = NoOwner
    /\ pc' = [pc EXCEPT ![th] = "returned"]
    /\ UNCHANGED <<objcStepRest, imp, originalImp, preSwap>>

\* The arguments of a thread that is not in ObjcMethodHook.
NoMethodArgs ==
    [className |-> << >>, selectorName |-> << >>, replacement |-> Null,
     originalFn |-> FALSE]

\* The calls a thread of Pair may be making.
MethodCalls ==
    { <<"HookMethod", [className |-> c, selectorName |-> n,
                       replacement |-> h, originalFn |-> o]>> :
          <<c, n, h, o>> \in ClassNames \X SelectorNames \X Hooks \X BOOLEAN }
    \cup
    { <<"UnhookMethod", [className |-> c, selectorName |-> n,
                         replacement |-> Null, originalFn |-> FALSE]>> :
          <<c, n>> \in ClassNames \X SelectorNames }

\* Two threads, each entering one HookMethod or UnhookMethod call.
InitObjcThreads ==
    /\ InitEngine
    /\ apple \in BOOLEAN
    /\ dobby = "any"
    /\ \E c \in [Pair -> MethodCalls] :
        /\ callOp = [th \in Threads |-> IF th \in Pair THEN c[th][1] ELSE "none"]
        /\ call = [th \in Threads |->
                       IF th \in Pair THEN c[th][2] ELSE NoMethodArgs]
    /\ pc = [th \in Threads |-> IF th \in Pair THEN "entry" ELSE "idle"]

NextObjcThreads ==
    \E th \in Threads :
        \/ HookMethod_Unsupported(th)
        \/ HookMethod_Lock(th)
        \/ HookMethod_Find(th)
        \/ HookMethod_Resolve(th)
        \/ HookMethod_Get(th)
        \/ HookMethod_Set(th)
        \/ HookMethod_Store(th)
        \/ UnhookMethod_Unsupported(th)
        \/ UnhookMethod_Lock(th)
        \/ UnhookMethod_Find(th)
        \/ UnhookMethod_Erase(th)

SpecObjcThreads == InitObjcThreads /\ [][NextObjcThreads]_vars

\* The steps of HookMethod and UnhookMethod between the lock and the return.
UnderMethodLock == {"find", "resolve", "get", "set", "store", "erase"}

\* C15: a thread is between HookMethod's or UnhookMethod's lock and its
\* return only while it owns s_methodMutex; between a HookMethod's read of
\* the slot and its swap the slot still holds what was read; and a
\* successful HookMethod has read, and hands back when asked, the
\* implementation that was in the slot when it swapped.
C15_OriginalIsPreSwap ==
    \A th \in Threads :
        /\ pc[th] \in UnderMethodLock => s_methodMutex = th
        /\ (callOp[th] = "HookMethod" /\ pc[th] = "set") =>
               method_getImplementation(imp, MethodOfThread(th))
                   = originalImp[th]
        /\ (callOp[th] = "HookMethod" /\ pc[th] \in {"store", "returned"}
            /\ (pc[th] = "returned" => ret[th])) =>
               /\ originalImp[th] = preSwap[th]
               /\ call[th].originalFn =>
                      HandedBack(call[th].originalFn, originalImp[th])
                          = preSwap[th]

\* Two threads hooked one Method through (A, f) and (B, f): the second was
\* handed the first one's replacement as its original.
C15_Witness ==
    \E a, b \in Pair :
        /\ a # b
        /\ callOp[a] = "HookMethod" /\ pc[a] = "returned" /\ ret[a]
        /\ callOp[b] = "HookMethod" /\ pc[b] = "returned" /\ ret[b]
        /\ MethodOfThread(a) = MethodOfThread(b)
        /\ call[b].originalFn
        /\ originalImp[b] = call[a].replacement
        /\ preSwap[b] = call[a].replacement
        /\ originalImp[a] = OriginalImp[MethodOfThread(a)]

\* ------------------------------------- AntiDetectionSystem: the call stack
\*
\* ExecuteWithSanitizedCallStack is a template in the header, so its body is
\* the code; SanitizeCallStack and RestoreCallStack are counted by their
\* calls. EnableProtection, DisableProtection and IsProtectionEnabled are
\* declared in the header only: they are modelled as setting, clearing and
\* reading the CallStack entry of m_enabledProtections.

\* The most calls that sanitize the call stack in one behaviour.
MaxRuns == 8

\* How the wrapped operation `code()` ends.
CodeOutcomes == {"return", "throw"}

\* bool IsProtectionEnabled(ProtectionType::CallStack) const
IsProtectionEnabled == callStackEnabled

\* void EnableProtection(ProtectionType::CallStack)
EnableProtection ==
    /\ callStackEnabled' = TRUE
    /\ UNCHANGED <<sanitizeCount, restoreCount, lastExit>>

\* void DisableProtection(ProtectionType::CallStack)
DisableProtection ==
    /\ callStackEnabled' = FALSE
    /\ UNCHANGED <<sanitizeCount, restoreCount, lastExit>>

\* template<typename Func> void ExecuteWithSanitizedCallStack(Func code):
\* `if (IsProtectionEnabled(CallStack)) { SanitizeCallStack(); code();
\*  RestoreCallStack(); } else { code(); }`. An exception thrown by code()
\* leaves the function at the call: nothing after it runs.
ExecuteWithSanitizedCallStack(outcome) ==
    /\ IF IsProtectionEnabled
       THEN /\ sanitizeCount' = sanitizeCount + 1
            /\ restoreCount' = IF outcome = "return" THEN restoreCount + 1
                               ELSE restoreCount
       ELSE UNCHANGED <<sanitizeCount, restoreCount>>
    /\ lastExit' = outcome
    /\ UNCHANGED callStackEnabled

\* What the AntiDetectionSystem's calls never touch.
stackRest ==
    <<hookVars, last, netVars, threadVars, objcVars, antiVars, hostVars>>

CallEnableProtection ==
    /\ EnableProtection
    /\ UNCHANGED stackRest

CallDisableProtection ==
    /\ DisableProtection
    /\ UNCHANGED stackRest

CallExecuteWithSanitizedCallStack ==
    /\ sanitizeCount < MaxRuns
    /\ \E outcome \in CodeOutcomes : ExecuteWithSanitizedCallStack(outcome)
    /\ UNCHANGED stackRest

NextStack ==
    \/ CallEnableProtection
    \/ CallDisableProtection
    \/ CallExecuteWithSanitizedCallStack

SpecStack == Init /\ [][NextStack]_vars

\* C20: between calls, every sanitization of the call stack has been
\* followed by exactly one restoration, however the wrapped operation of
\* ExecuteWithSanitizedCallStack ended.
C20_RestoredOncePerSanitization ==
    restoreCount = sanitizeCount

\* ------------------------------------------- more claims under SpecObjc

\* The tracked entries of registry m that resolve to Method method.
EntriesOf(m, method) ==
    {k \in DOMAIN m : class_getInstanceMethod(m[k].cls, m[k].sel) = method}

\* C27: a method whose slot holds a replacement installed by HookMethod is
\* tracked in the method-hook registry.
C27_ReplacedMethodIsTracked ==
    \A method \in Methods :
        imp[method] # OriginalImp[method] =>
            EntriesOf(s_hookedMethods, method) # {}

\* C28: HookMethod rejects a call as already hooked, and UnhookMethod
\* removes an entry, only when the tracked entry under the call's key was
\* stored for the call's own (className, selectorName) pair.
C28_DistinctPairsDistinctKeys ==
    LET key == MethodKey(lastM.call.className, lastM.call.selectorName)
        own == MethodEntry(objc_getClass(lastM.call.className),
                           sel_registerName(lastM.call.selectorName))
    IN  ( /\ lastM.call.op \in {"HookMethod", "UnhookMethod"}
          /\ Find(lastM.call.pre, key) ) =>
            lastM.call.pre[key] = own

\* ------------------------------------------------ more claims under Spec

\* C30: on a build without __APPLE__ every RegisterHook call returns false
\* and the hook registry is empty.
C30_NoBackendNoHooks ==
    ~apple =>
        /\ last.op = "RegisterHook" => last.ret = FALSE
        /\ s_hookedFunctions = EmptyMap
        /\ patched = EmptyMap

\* Without the backend: a RegisterHook with two non-null addresses, after
\* an earlier RegisterHook.
C30_Witness ==
    /\ ~apple
    /\ last.op = "RegisterHook"
    /\ last.target # Null
    /\ last.hook # Null
    /\ last.prevOp = "RegisterHook"

\* ------------------------------------- AntiDetectionSystem: the callbacks
\*
\* RegisterProtectionCallback, RegisterDetectionCallback and the two
\* Unregister calls, one whole call each.

\* The most ids a behaviour issues.
MaxIds == 4

\* What a registered closure does when it is invoked: nothing to the
\* registrations, register another callback, or unregister one.
Closures == {"noop", "registers", "unregisters"}

CallbackKinds == {"protection", "detection"}

\* The registrations of one kind.
CallbacksOf(kind) ==
    IF kind = "protection" THEN m_protectionCallbacks
    ELSE m_detectionCallbacks

\* NextCallbackId of a counter that hands out the lowest id not in use.
NextCallbackIdLowestFree(id, used) ==
    CHOOSE n \in 1..(MaxIds + 2) :
        /\ n \notin used
        /\ \A k \in 1..(n - 1) : k \in used

\* m_nextCallbackId after it issued id.
NextCallbackId(id, used) == id + 1

\* The registrations with the registration of `callback` under id added.
WithCallback(kind, id, callback) ==
    /\ m_protectionCallbacks' =
           IF kind = "protection"
           THEN Put(m_protectionCallbacks, id, callback)
           ELSE m_protectionCallbacks
    /\ m_detectionCallbacks' =
           IF kind = "detection"
           THEN Put(m_detectionCallbacks, id, callback)
           ELSE m_detectionCallbacks

\* The registrations with the one under id removed.
WithoutCallback(kind, id) ==
    /\ m_protectionCallbacks' =
           IF kind = "protection"
           THEN Erase(m_protectionCallbacks, id)
           ELSE m_protectionCallbacks
    /\ m_detectionCallbacks' =
           IF kind = "detection"
           THEN Erase(m_detectionCallbacks, id)
           ELSE m_detectionCallbacks

\* int RegisterProtectionCallback(const ProtectionCallback&) and
\* int RegisterDetectionCallback(const DetectionCallback&): store the
\* callback under m_nextCallbackId, advance the counter, return the id.
RegisterCallback(kind, callback) ==
    LET id == m_nextCallbackId
    IN  /\ WithCallback(kind, id, callback)
        /\ m_nextCallbackId' =
               NextCallbackId(id, DOMAIN m_protectionCallbacks
                                  \cup DOMAIN m_detectionCallbacks \cup {id})
        /\ issued' = Append(issued, id)
        /\ lastA' = [op |-> "Register", kind |-> kind, id |-> id,
                     ret |-> TRUE]

\* bool UnregisterProtectionCallback(int id) and
\* bool UnregisterDetectionCallback(int id): true when id was registered.
UnregisterCallback(kind, id) ==
    IF Find(CallbacksOf(kind), id)
    THEN /\ WithoutCallback(kind, id)
         /\ lastA' = [op |-> "Unregister", kind |-> kind, id |-> id,
                      ret |-> TRUE]
         /\ UNCHANGED <<m_nextCallbackId, issued>>
    ELSE /\ lastA' = [op |-> "Unregister", kind |-> kind, id |-> id,
                      ret |-> FALSE]
         /\ UNCHANGED <<m_nextCallbackId, issued, m_protectionCallbacks,
                        m_detectionCallbacks>>

\* What the callback registry's whole calls never touch.
callbackRest ==
    <<hookVars, last, netVars, threadVars, objcVars, stackVars,
      m_mutex, dispatch, regionVars, riskVars, hostVars>>

CallRegisterCallback ==
    /\ m_nextCallbackId <= MaxIds
    /\ \E kind \in CallbackKinds, callback \in Closures :
           RegisterCallback(kind, callback)
    /\ UNCHANGED callbackRest

CallUnregisterCallback ==
    /\ \E kind \in CallbackKinds, id \in 1..MaxIds :
           UnregisterCallback(kind, id)
    /\ UNCHANGED callbackRest

NextCallbacks ==
    \/ CallRegisterCallback
    \/ CallUnregisterCallback

SpecCallbacks == Init /\ [][NextCallbacks]_vars

\* C21: the ids the Register calls returned are 1, 2, 3, ... in the order
\* of the calls, whatever was unregistered in between; the counter is one
\* past the last id issued.
C21_IdsNeverReissued ==
    /\ \A i \in 1..Len(issued) : issued[i] = FirstCallbackId + i - 1
    /\ m_nextCallbackId = FirstCallbackId + Len(issued)

\* Id 1 was issued and unregistered, and a later Register call of the
\* other kind returned 3.
C21_Witness ==
    /\ Len(issued) = 3
    /\ lastA.op = "Register"
    /\ lastA.id = 3
    /\ lastA.kind = "detection"
    /\ ~Find(m_protectionCallbacks, 1)
    /\ ~Find(m_detectionCallbacks, 1)
    /\ Find(m_protectionCallbacks, 2)

\* ---------------------------- AntiDetectionSystem: callbacks, by thread
\*
\* NotifyProtectionCallbacks / NotifyDetectionCallbacks and the Register
\* and Unregister calls as the steps of a thread. A Notify call locks
\* m_mutex, copies the registrations of its kind, unlocks, and invokes the
\* copies one by one; an invoked closure may itself call Register or
\* Unregister on the thread that is dispatching.

\* The most ids a behaviour of the threads issues.
MaxDispatchIds == 2

\* What the callback steps never touch (lastA belongs to the whole calls).
notifyRest ==
    <<hookVars, last, netVars, objcVars, stackVars, regionVars, riskVars,
      hostVars, s_hookMutex, success, logged, lastA>>

\* The registry as a step that does not change it leaves it.
registryKept ==
    <<m_nextCallbackId, m_protectionCallbacks, m_detectionCallbacks, issued>>

\* RegisterCallback as a thread's step.
RegisterCallbackStep(th, kind, callback) ==
    /\ WithCallback(kind, m_nextCallbackId, callback)
    /\ m_nextCallbackId' =
           NextCallbackId(m_nextCallbackId,
                          DOMAIN m_protectionCallbacks
                          \cup DOMAIN m_detectionCallbacks
                          \cup {m_nextCallbackId})
    /\ issued' = Append(issued, m_nextCallbackId)

\* UnregisterCallback as a thread's step.
UnregisterCallbackStep(th, kind, id) ==
    /\ WithoutCallback(kind, id)
    /\ UNCHANGED <<m_nextCallbackId, issued>>

\* The arguments of a thread that is in no callback call.
NoCallbackArgs == [kind |-> "none", callback |-> "noop", id |-> Null]

\* Register calls that have started and not yet taken their id: those of
\* threads inside RegisterCallback and of closures being invoked.
PendingRegisters ==
    Cardinality({th \in Threads :
        \/ callOp[th] = "Register" /\ pc[th] \in {"lock", "apply"}
        \/ /\ callOp[th] = "Notify" /\ pc[th] \in {"callback", "nested"}
           /\ dispatch[th].snapshot[dispatch[th].current] = "registers"})

\* The thread that raises the notifications; the other thread of Pair
\* registers and unregisters.
Notifier == 1

\* The calls thread th makes.
CallbackOps(th) ==
    IF th = Notifier THEN {"Notify"} ELSE {"Register", "Unregister"}

\* A thread of Pair that is in no call starts one.
BeginCallbackCall(th) ==
    /\ th \in Pair
    /\ pc[th] \in {"idle", "returned"}
    /\ \E op \in CallbackOps(th),
          kind \in CallbackKinds, callback \in Closures,
          id \in 1..MaxDispatchIds :
        /\ op = "Register" =>
               m_nextCallbackId + PendingRegisters <= MaxDispatchIds
        /\ op # "Register" => callback = "noop"
        /\ op # "Unregister" => id = 1
        /\ callOp' = [callOp EXCEPT ![th] = op]
        /\ call' = [call EXCEPT ![th] =
                        [kind |-> kind, callback |-> callback, id |-> id]]
    /\ pc' = [pc EXCEPT ![th] = "lock"]
    /\ UNCHANGED <<notifyRest, registryKept, ret, m_mutex, dispatch>>

\* Register*/Unregister*: `std::lock_guard<std::mutex> lock(m_mutex);`
Callback_Lock(th) ==
    /\ callOp[th] \in {"Register", "Unregister"}
    /\ pc[th] = "lock"
    /\ LockAvailable(m_mutex)
    /\ m_mutex' = th
    /\ pc' = [pc EXCEPT ![th] = "apply"]
    /\ UNCHANGED <<notifyRest, registryKept, ret, call, callOp, dispatch>>

\* Register*/Unregister*: the change of the map, the return and the unlock.
Callback_Apply(th) ==
    /\ callOp[th] \in {"Register", "Unregister"}
    /\ pc[th] = "apply"
    /\ IF callOp[th] = "Register"
       THEN RegisterCallbackStep(th, call[th].kind, call[th].callback)
       ELSE UnregisterCallbackStep(th, call[th].kind, call[th].id)
    /\ ret' = [ret EXCEPT ![th] =
                   callOp[th] = "Register"
                   \/ Find(CallbacksOf(call[th].kind), call[th].id)]
    /\ m_mutex' = NoOwner
    /\ pc' = [pc EXCEPT ![th] = "returned"]
    /\ UNCHANGED <<notifyRest, call, callOp, dispatch>>

\* Notify*: the lock taken for the copy.
Notify_Lock(th) ==
    /\ callOp[th] = "Notify"
    /\ pc[th] = "lock"
    /\ LockAvailable(m_mutex)
    /\ m_mutex' = th
    /\ pc' = [pc EXCEPT ![th] = "copy"]
    /\ UNCHANGED <<notifyRest, registryKept, ret, call, callOp, dispatch>>

\* MutexAfterCopy of a Notify that keeps m_mutex while it invokes.
MutexAfterCopyHeld(th) == th

\* Notify*: the lock is released once the copy is made.
MutexAfterCopy(th) == NoOwner

\* Notify*: the copy of the registrations of the call's kind.
Notify_Copy(th) ==
    /\ callOp[th] = "Notify"
    /\ pc[th] = "copy"
    /\ dispatch' = [dispatch EXCEPT ![th] =
           [kind |-> call[th].kind,
            snapshot |-> CallbacksOf(call[th].kind),
            invoked |-> {},
            current |-> Null,
            atStart |-> CallbacksOf(call[th].kind)]]
    /\ m_mutex' = MutexAfterCopy(th)
    /\ pc' = [pc EXCEPT ![th] = "invoke"]
    /\ UNCHANGED <<notifyRest, registryKept, ret, call, callOp>>

\* Notify*: the loop over the copy reaches a callback not yet invoked (an
\* unordered_map iterates in any order) and calls it.
Notify_Invoke(th) ==
    /\ callOp[th] = "Notify"
    /\ pc[th] = "invoke"
    /\ \E id \in DOMAIN dispatch[th].snapshot \ dispatch[th].invoked :
        /\ dispatch[th].snapshot[id] = "registers" =>
               m_nextCallbackId + PendingRegisters <= MaxDispatchIds
        /\ dispatch' = [dispatch EXCEPT ![th].current = id]
    /\ pc' = [pc EXCEPT ![th] = "callback"]
    /\ UNCHANGED <<notifyRest, registryKept, ret, call, callOp, m_mutex>>

\* The closure thread th is invoking.
Invoking(th) == dispatch[th].snapshot[dispatch[th].current]

\* The dispatch of thread th once the closure it is invoking has returned.
Invoked(th) ==
    [dispatch EXCEPT ![th].invoked = @ \cup {dispatch[th].current},
                     ![th].current = Null]

\* A closure that leaves the registrations alone runs and returns.
Callback_Noop(th) ==
    /\ callOp[th] = "Notify"
    /\ pc[th] = "callback"
    /\ Invoking(th) = "noop"
    /\ dispatch' = Invoked(th)
    /\ pc' = [pc EXCEPT ![th] = "invoke"]
    /\ UNCHANGED <<notifyRest, registryKept, ret, call, callOp, m_mutex>>

\* A closure calls Register or Unregister: that call's lock_guard, taken by
\* the dispatching thread.
Callback_NestedLock(th) ==
    /\ callOp[th] = "Notify"
    /\ pc[th] = "callback"
    /\ Invoking(th) # "noop"
    /\ LockAvailable(m_mutex)
    /\ m_mutex' = th
    /\ pc' = [pc EXCEPT ![th] = "nested"]
    /\ UNCHANGED <<notifyRest, registryKept, ret, call, callOp, dispatch>>

\* The closure's Register or Unregister call changes the map, unlocks and
\* returns, and the closure returns.
Callback_NestedApply(th) ==
    /\ callOp[th] = "Notify"
    /\ pc[th] = "nested"
    /\ IF Invoking(th) = "registers"
       THEN \E kind \in CallbackKinds :
                RegisterCallbackStep(th, kind, "noop")
       ELSE \E kind \in CallbackKinds, id \in 1..MaxDispatchIds :
                UnregisterCallbackStep(th, kind, id)
    /\ m_mutex' = NoOwner
    /\ dispatch' = Invoked(th)
    /\ pc' = [pc EXCEPT ![th] = "invoke"]
    /\ UNCHANGED <<notifyRest, ret, call, callOp>>

\* Notify*: every copy was invoked; the call returns and whatever lock it
\* still holds is released.
Notify_Return(th) ==
    /\ callOp[th] = "Notify"
    /\ pc[th] = "invoke"
    /\ DOMAIN dispatch[th].snapshot = dispatch[th].invoked
    /\ m_mutex' = IF m_mutex = th THEN NoOwner ELSE m_mutex
    /\ pc' = [pc EXCEPT ![th] = "returned"]
    /\ UNCHANGED <<notifyRest, registryKept, ret, call, callOp, dispatch>>

\* No thread is inside the AntiDetectionSystem yet.
InitNotify ==
    /\ InitEngine
    /\ apple = TRUE
    /\ dobby = "any"
    /\ pc = [th \in Threads |-> "idle"]
    /\ callOp = [th \in Threads |-> "none"]
    /\ call = [th \in Threads |-> NoCallbackArgs]

NextNotify ==
    \E th \in Threads :
        \/ BeginCallbackCall(th)
        \/ Callback_Lock(th)
        \/ Callback_Apply(th)
        \/ Notify_Lock(th)
        \/ Notify_Copy(th)
        \/ Notify_Invoke(th)
        \/ Callback_Noop(th)
        \/ Callback_NestedLock(th)
        \/ Callback_NestedApply(th)
        \/ Notify_Return(th)

SpecNotify == InitNotify /\ [][NextNotify]_vars

\* C22: a Notify call holds m_mutex at no point of its loop, so an invoked
\* closure that registers or unregisters never waits for a lock its own
\* thread holds; and a Notify call that returned has invoked exactly the
\* callbacks that were registered when it made its copy.
C22_SnapshotDispatchedOutsideLock ==
    \A th \in Threads :
        /\ (callOp[th] = "Notify" /\ pc[th] \in {"invoke", "callback"}) =>
               m_mutex # th
        /\ (callOp[th] = "Notify" /\ pc[th] = "returned") =>
               dispatch[th].invoked = DOMAIN dispatch[th].atStart

\* A Notify call returned after it invoked a closure that unregistered,
\* and one of the callbacks it invoked is no longer registered.
C22_Witness ==
    \E th \in Pair :
        /\ callOp[th] = "Notify"
        /\ pc[th] = "returned"
        /\ \E i \in dispatch[th].invoked :
               dispatch[th].atStart[i] = "unregisters"
        /\ \E j \in dispatch[th].invoked :
               ~Find(CallbacksOf(dispatch[th].kind), j)

\* ------------------------------ AntiDetectionSystem: the protected regions
\*
\* ProtectMemoryRegion and UnprotectMemoryRegion, one whole call each.
\* m_protectedRegions maps the address of every Active region to the buffer
\* of its saved bytes and its size.

\* The configured maximum length of a region.
MaxRegionBytes == 2

\* The sizes a caller passes: none, the allowed ones, one too long.
Sizes == 0..(MaxRegionBytes + 1)

\* The addresses of the size bytes at address.
RegionBytes(address, size) == address..(address + size - 1)

\* The reversible transform of one byte: applied twice it gives the byte
\* back.
Transform(b) == (ByteValues - 1) - b

\* The owned buffer: a copy of the size bytes at address.
SavedBytes(mem, address, size) ==
    [i \in 1..size |-> mem[address + i - 1]]

\* The memory with the size bytes at address transformed in place.
Obfuscated(mem, address, size) ==
    [a \in DOMAIN mem |->
        IF a \in RegionBytes(address, size) THEN Transform(mem[a])
        ELSE mem[a]]

\* Restored of an Unprotect that only forgets the region.
RestoredNot(mem, address, saved) == mem

\* The memory with the saved buffer written back at address.
Restored(mem, address, saved) ==
    [a \in DOMAIN mem |->
        IF a \in RegionBytes(address, Len(saved))
        THEN saved[a - address + 1]
        ELSE mem[a]]

\* RegionActive without the lookup.
RegionActiveNever(m, address) == FALSE

\* The region at address is Active.
RegionActive(m, address) == Find(m, address)

\* A null address, no byte, or more bytes than the configured maximum.
InvalidRegion(address, size) ==
    address = Null \/ size = 0 \/ size > MaxRegionBytes

\* What lastA keeps of the call before the last one.
EarlierA(c) ==
    IF c.op = "none" THEN [op |-> "none"]
    ELSE [op |-> c.op, address |-> c.address, size |-> c.size,
          ret |-> c.ret, preMemory |-> c.preMemory]

\* What lastA records of a region call that returned.
ReturnedA(name, address, size, result) ==
    [op |-> name, address |-> address, size |-> size, ret |-> result,
     pre |-> m_protectedRegions, preMemory |-> memory,
     prev |-> EarlierA(lastA)]

\* bool ProtectMemoryRegion(void* address, size_t size)
ProtectMemoryRegion(address, size) ==
    IF RegionActive(m_protectedRegions, address)
       \/ InvalidRegion(address, size)
    THEN /\ lastA' = ReturnedA("Protect", address, size, FALSE)
         /\ UNCHANGED <<m_protectedRegions, memory>>
    ELSE /\ m_protectedRegions' =
                Put(m_protectedRegions, address,
                    [saved |-> SavedBytes(memory, address, size),
                     size |-> size])
         /\ memory' = Obfuscated(memory, address, size)
         /\ lastA' = ReturnedA("Protect", address, size, TRUE)

\* bool UnprotectMemoryRegion(void* address)
UnprotectMemoryRegion(address) ==
    IF ~RegionActive(m_protectedRegions, address)
    THEN /\ lastA' = ReturnedA("Unprotect", address, 0, FALSE)
         /\ UNCHANGED <<m_protectedRegions, memory>>
    ELSE /\ memory' = Restored(memory, address,
                               m_protectedRegions[address].saved)
         /\ m_protectedRegions' = Erase(m_protectedRegions, address)
         /\ lastA' = ReturnedA("Unprotect", address,
                               m_protectedRegions[address].size, TRUE)

\* What the region calls never touch.
regionRest ==
    <<hookVars, last, netVars, threadVars, objcVars, stackVars, cbVars,
      riskVars, hostVars>>

\* The caller passes bytes that lie in memory.
CallProtectMemoryRegion ==
    /\ \E address \in Addresses \cup {Null}, size \in Sizes :
        /\ address # Null => RegionBytes(address, size) \subseteq Addresses
        /\ ProtectMemoryRegion(address, size)
    /\ UNCHANGED regionRest

CallUnprotectMemoryRegion ==
    /\ \E address \in Addresses \cup {Null} : UnprotectMemoryRegion(address)
    /\ UNCHANGED regionRest

NextRegions ==
    \/ CallProtectMemoryRegion
    \/ CallUnprotectMemoryRegion

SpecRegions == Init /\ [][NextRegions]_vars

\* C23: when a successful UnprotectMemoryRegion(a) follows a successful
\* ProtectMemoryRegion(a, n), the n bytes at a are what they were before
\* the Protect call and the region at a is no longer Active.
C23_UnprotectRestoresBytes ==
    ( /\ lastA.op = "Unprotect" /\ lastA.ret
      /\ lastA.prev.op = "Protect" /\ lastA.prev.ret
      /\ lastA.prev.address = lastA.address ) =>
        /\ \A a \in RegionBytes(lastA.address, lastA.prev.size) :
               memory[a] = lastA.prev.preMemory[a]
        /\ ~Find(m_protectedRegions, lastA.address)

\* Protect then Unprotect of a region of the maximum length whose bytes
\* another Active region overlaps.
C23_Witness ==
    /\ lastA.op = "Unprotect" /\ lastA.ret
    /\ lastA.prev.op = "Protect" /\ lastA.prev.ret
    /\ lastA.prev.address = lastA.address
    /\ lastA.prev.size = MaxRegionBytes
    /\ lastA.preMemory # memory
    /\ \E other \in DOMAIN m_protectedRegions :
           RegionBytes(other, m_protectedRegions[other].size)
               \cap RegionBytes(lastA.address, lastA.prev.size) # {}

\* C24: ProtectMemoryRegion on an address whose region is Active returns
\* false, leaves the memory as it was and leaves every region, its saved
\* bytes included, as it was.
C24_ActiveRegionNotProtectedAgain ==
    ( /\ lastA.op = "Protect"
      /\ Find(lastA.pre, lastA.address) ) =>
        /\ lastA.ret = FALSE
        /\ memory = lastA.preMemory
        /\ m_protectedRegions = lastA.pre

\* A second Protect of an Active address, of an allowed size that is not
\* the region's.
C24_Witness ==
    /\ lastA.op = "Protect"
    /\ Find(lastA.pre, lastA.address)
    /\ lastA.size \in 1..MaxRegionBytes
    /\ lastA.size # lastA.pre[lastA.address].size

\* -------------------------- AntiDetectionSystem: UpdateDetectionTechniques
\*
\* The refresh of the detection techniques and the clock it is limited by.

\* The latest time of the clock in a behaviour.
MaxTime == 6

\* The minimum interval between two refreshes that are not forced.
MinInterval == 2

\* UpdateDue of a refresh that is not rate-limited.
UpdateDueAlways(time, previous) == TRUE

\* No refresh yet, or the minimum interval has passed since the last one.
UpdateDue(time, previous) ==
    previous = Never \/ time - previous >= MinInterval

\* bool UpdateDetectionTechniques(bool forceUpdate = false)
UpdateDetectionTechniques(forceUpdate) ==
    LET refresh == forceUpdate \/ UpdateDue(now, lastUpdate)
    IN  /\ lastUpdate' = IF refresh THEN now ELSE lastUpdate
        /\ lastA' = [op |-> "Update", force |-> forceUpdate,
                     ret |-> refresh, at |-> now, preLast |-> lastUpdate]
        /\ UNCHANGED now

\* What the refresh and the clock never touch.
riskRest ==
    <<hookVars, last, netVars, threadVars, objcVars, stackVars, cbVars,
      regionVars, hostVars>>

\* Time passes.
Tick ==
    /\ now < MaxTime
    /\ now' = now + 1
    /\ UNCHANGED <<lastUpdate, lastA, riskRest>>

CallUpdateDetectionTechniques ==
    /\ \E forceUpdate \in BOOLEAN : UpdateDetectionTechniques(forceUpdate)
    /\ UNCHANGED riskRest

NextRisk ==
    \/ Tick
    \/ CallUpdateDetectionTechniques

SpecRisk == Init /\ [][NextRisk]_vars

\* C26: UpdateDetectionTechniques returns true exactly when it was forced
\* or no refresh is less than MinInterval old; when it returns true the
\* refresh happened at the time of the call, and when it returns false
\* the last refresh is the one there was before the call.
C26_RefreshIsRateLimited ==
    lastA.op = "Update" =>
        /\ lastA.ret = ( \/ lastA.force
                         \/ lastA.preLast = Never
                         \/ lastA.at - lastA.preLast >= MinInterval )
        /\ lastA.ret => lastUpdate = lastA.at
        /\ ~lastA.ret => lastUpdate = lastA.preLast

\* An unforced call one tick short of the interval after a forced refresh
\* that itself came too early for an unforced one.
C26_Witness ==
    /\ lastA.op = "Update"
    /\ ~lastA.force
    /\ ~lastA.ret
    /\ lastA.preLast > 1
    /\ lastA.at - lastA.preLast = MinInterval - 1

\* ------------------------------------------- the mutexes of the registries
\*
\* The hook map is guarded by HookEngine::s_hookMutex, the method-hook map
\* by ObjcMethodHook::s_methodMutex; AntiDetectionSystem declares one mutex,
\* m_mutex, beside its callback maps and its map of protected regions.
\* Two threads, each inside one call on one of the four registries.

\* ProtectMemoryRegion / UnprotectMemoryRegion:
\* `std::lock_guard<std::mutex> lock(m_mutex);`
Region_Lock(th) ==
    /\ callOp[th] \in {"Protect", "Unprotect"}
    /\ pc[th] = "lock"
    /\ LockAvailable(m_mutex)
    /\ m_mutex' = th
    /\ pc' = [pc EXCEPT ![th] = "apply"]
    /\ UNCHANGED <<notifyRest, registryKept, ret, call, callOp, dispatch>>

\* ProtectMemoryRegion / UnprotectMemoryRegion: the body, the return and
\* the unlock.
Region_Apply(th) ==
    /\ callOp[th] \in {"Protect", "Unprotect"}
    /\ pc[th] = "apply"
    /\ IF callOp[th] = "Protect"
       THEN ProtectMemoryRegion(call[th].address, call[th].size)
       ELSE UnprotectMemoryRegion(call[th].address)
    /\ ret' = [ret EXCEPT ![th] = lastA'.ret]
    /\ m_mutex' = NoOwner
    /\ pc' = [pc EXCEPT ![th] = "returned"]
    /\ UNCHANGED <<hookVars, last, netVars, objcVars, stackVars, riskVars,
                   hostVars, s_hookMutex, success, logged, registryKept,
                   call, callOp, dispatch>>

\* The registry each call works on.
RegistryOf(op) ==
    IF op \in {"RegisterHook", "UnregisterHook", "ClearAllHooks",
               "Initialize"} THEN "hook map"
    ELSE IF op \in {"HookMethod", "UnhookMethod", "ObjcClearAllHooks"}
         THEN "method-hook map"
    ELSE IF op \in {"Register", "Unregister", "Notify"} THEN "callback maps"
    ELSE IF op \in {"Protect", "Unprotect"} THEN "protected-region map"
    ELSE "none"

\* The owner of the mutex that call op locks.
MutexOwnerFor(op) ==
    IF RegistryOf(op) = "hook map" THEN s_hookMutex
    ELSE IF RegistryOf(op) = "method-hook map" THEN s_methodMutex
    ELSE m_mutex

\* Thread th is at the lock_guard of its call.
AtLockGuard(th) ==
    \/ RegistryOf(callOp[th]) = "method-hook map" /\ pc[th] = "entry"
    \/ RegistryOf(callOp[th]) # "method-hook map" /\ pc[th] = "lock"

\* The calls a thread of Pair may be making, and where each starts.
LockCalls ==
    {<<"RegisterHook", [target |-> t, hook |-> 1], "entry">> : t \in 1..2}
    \cup {<<"HookMethod", [className |-> c, selectorName |-> <<"f">>,
                           replacement |-> 1, originalFn |-> TRUE],
            "entry">> : c \in {<<"A">>, <<"B">>}}
    \cup {<<"Register", [kind |-> k, callback |-> "noop", id |-> Null],
            "lock">> : k \in CallbackKinds}
    \cup {<<"Protect", [address |-> a, size |-> 1], "lock">> : a \in 1..2}
    \cup {<<"Unprotect", [address |-> 1, size |-> 0], "lock">>}

InitLocks ==
    /\ InitEngine
    /\ apple = TRUE
    /\ dobby = "any"
    /\ \E c \in [Pair -> LockCalls] :
        /\ callOp = [th \in Threads |-> IF th \in Pair THEN c[th][1] ELSE "none"]
        /\ call = [th \in Threads |->
                       IF th \in Pair THEN c[th][2] ELSE NoCallbackArgs]
        /\ pc = [th \in Threads |-> IF th \in Pair THEN c[th][3] ELSE "idle"]

NextLocks ==
    \E th \in Threads :
        \/ RegisterHook_Check(th)
        \/ RegisterHook_Lock(th)
        \/ RegisterHook_Find(th)
        \/ RegisterHook_Backend(th)
        \/ RegisterHook_Commit(th)
        \/ HookMethod_Lock(th)
        \/ HookMethod_Find(th)
        \/ HookMethod_Resolve(th)
        \/ HookMethod_Get(th)
        \/ HookMethod_Set(th)
        \/ HookMethod_Store(th)
        \/ Callback_Lock(th)
        \/ Callback_Apply(th)
        \/ Region_Lock(th)
        \/ Region_Apply(th)

SpecLocks == InitLocks /\ [][NextLocks]_vars

\* C25: a thread at the lock_guard of its call finds the mutex held only by
\* a thread whose call works on the same registry.
C25_OwnLockPerRegistry ==
    \A a, b \in Threads :
        (a # b /\ AtLockGuard(a) /\ MutexOwnerFor(callOp[a]) = b) =>
            RegistryOf(callOp[b]) = RegistryOf(callOp[a])

\* ------------------------- HookEngine and ObjcMethodHook calls that return
\*
\* ClearAllHooks, Initialize and ObjcMethodHook::ClearAllHooks as the steps
\* of a thread, beside those of RegisterHook, UnregisterHook, HookMethod and
\* UnhookMethod. Two threads, each making one call; every thread that can
\* take a step eventually takes one.

\* What the HookEngine's clearing steps never touch.
clearRest ==
    <<apple, dobby, last, netVars, restVars, success, callOp>>

\* MutexEnteringInitialize of an Initialize that locks s_hookMutex itself
\* before it calls ClearAllHooks.
MutexEnteringInitializeLocked(th, owner) == th

\* Initialize takes no lock of its own: s_hookMutex is as it was.
MutexEnteringInitialize(th, owner) == owner

\* `std::cout << "Initializing HookEngine..."; ClearAllHooks();`
Initialize_Enter(th) ==
    /\ callOp[th] = "Initialize"
    /\ pc[th] = "entry"
    /\ s_hookMutex' = MutexEnteringInitialize(th, s_hookMutex)
    /\ logged' = [logged EXCEPT ![th] = "Initializing HookEngine..."]
    /\ pc' = [pc EXCEPT ![th] = "lock"]
    /\ UNCHANGED <<clearRest, s_hookedFunctions, patched, call, ret>>

\* ClearAllHooks: `std::lock_guard<std::mutex> lock(s_hookMutex);` and the
\* start of the loop over s_hookedFunctions.
ClearAllHooks_Lock(th) ==
    /\ callOp[th] \in {"ClearAllHooks", "Initialize"}
    /\ pc[th] = "lock"
    /\ LockAvailable(s_hookMutex)
    /\ s_hookMutex' = th
    /\ call' = [call EXCEPT ![th] =
                    [target |-> Null, hook |-> Null,
                     remaining |-> DOMAIN s_hookedFunctions, okSet |-> {}]]
    /\ pc' = [pc EXCEPT ![th] = "loop"]
    /\ UNCHANGED <<clearRest, s_hookedFunctions, patched, ret, logged>>

\* ClearAllHooks: `Implementation::UnhookFunction(pair.first);` for the
\* next entry, in the map's order, which is any order.
ClearAllHooks_Unhook(th) ==
    /\ callOp[th] \in {"ClearAllHooks", "Initialize"}
    /\ pc[th] = "loop"
    /\ \E t \in call[th].remaining, ok \in BOOLEAN :
        /\ ok \in UnhookFunctionOutcomes(t)
        /\ patched' = UnhookFunction(patched, t, ok)
        /\ call' = [call EXCEPT ![th].remaining = @ \ {t},
                                ![th].okSet = IF ok THEN @ \cup {t} ELSE @]
    /\ UNCHANGED <<clearRest, s_hookedFunctions, s_hookMutex, pc, ret, logged>>

\* ClearAllHooks: `s_hookedFunctions.clear();`, the unlock and the return
\* (Initialize then returns true).
ClearAllHooks_Clear(th) ==
    /\ callOp[th] \in {"ClearAllHooks", "Initialize"}
    /\ pc[th] = "loop"
    /\ call[th].remaining = {}
    /\ s_hookedFunctions' = ClearCommit(s_hookedFunctions, call[th].okSet)
    /\ s_hookMutex' = NoOwner
    /\ ret' = [ret EXCEPT ![th] = TRUE]
    /\ logged' = [logged EXCEPT ![th] = "Cleared all hooks"]
    /\ pc' = [pc EXCEPT ![th] = "returned"]
    /\ UNCHANGED <<clearRest, patched, call>>

\* ObjcMethodHook::ClearAllHooks without __APPLE__: an empty body.
ObjcClearAllHooks_Unsupported(th) ==
    /\ callOp[th] = "ObjcClearAllHooks"
    /\ pc[th] = "entry"
    /\ ~ObjcSupported
    /\ ret' = [ret EXCEPT ![th] = TRUE]
    /\ pc' = [pc EXCEPT ![th] = "returned"]
    /\ UNCHANGED <<objcStepRest, logged, s_methodMutex, s_hookedMethods, imp,
                   originalImp, preSwap>>

\* ObjcMethodHook::ClearAllHooks:
\* `std::lock_guard<std::mutex> lock(s_methodMutex);`
ObjcClearAllHooks_Lock(th) ==
    /\ callOp[th] = "ObjcClearAllHooks"
    /\ pc[th] = "entry"
    /\ ObjcSupported
    /\ LockAvailable(s_methodMutex)
    /\ s_methodMutex' = th
    /\ pc' = [pc EXCEPT ![th] = "clear"]
    /\ UNCHANGED <<objcStepRest, ret, logged, s_hookedMethods, imp,
                   originalImp, preSwap>>

\* ObjcMethodHook::ClearAllHooks: `s_hookedMethods.clear();`, the unlock
\* and the return.
ObjcClearAllHooks_Clear(th) ==
    /\ callOp[th] = "ObjcClearAllHooks"
    /\ pc[th] = "clear"
    /\ s_hookedMethods' = EmptyMap
    /\ s_methodMutex' = NoOwner
    /\ ret' = [ret EXCEPT ![th] = TRUE]
    /\ logged' = [logged EXCEPT ![th] =
                      "Cleared all method hooks from tracking"]
    /\ pc' = [pc EXCEPT ![th] = "returned"]
    /\ UNCHANGED <<objcStepRest, imp, originalImp, preSwap>>

\* The calls a thread of Pair may be making, and where each starts.
EngineCalls ==
    { <<"RegisterHook", [target |-> 1, hook |-> 1], "entry">>,
      <<"UnregisterHook", [target |-> 1, hook |-> Null], "entry">>,
      <<"ClearAllHooks", [target |-> Null, hook |-> Null], "lock">>,
      <<"Initialize", [target |-> Null, hook |-> Null], "entry">>,
      <<"HookMethod", [className |-> <<"A">>, selectorName |-> <<"f">>,
                       replacement |-> 1, originalFn |-> TRUE], "entry">>,
      <<"UnhookMethod", [className |-> <<"A">>, selectorName |-> <<"f">>,
                         replacement |-> Null, originalFn |-> FALSE],
        "entry">>,
      <<"ObjcClearAllHooks", NoMethodArgs, "entry">> }

InitEngineCalls ==
    /\ InitEngine
    /\ apple \in BOOLEAN
    /\ dobby = "any"
    /\ \E c \in [Pair -> EngineCalls] :
        /\ callOp = [th \in Threads |-> IF th \in Pair THEN c[th][1] ELSE "none"]
        /\ call = [th \in Threads |->
                       IF th \in Pair THEN c[th][2]
                       ELSE [target |-> Null, hook |-> Null]]
        /\ pc = [th \in Threads |-> IF th \in Pair THEN c[th][3] ELSE "idle"]

\* A step of thread th.
EngineStep(th) ==
    \/ RegisterHook_Check(th)
    \/ RegisterHook_Lock(th)
    \/ RegisterHook_Find(th)
    \/ RegisterHook_Backend(th)
    \/ RegisterHook_Commit(th)
    \/ UnregisterHook_Check(th)
    \/ UnregisterHook_Lock(th)
    \/ UnregisterHook_Find(th)
    \/ UnregisterHook_Backend(th)
    \/ UnregisterHook_Commit(th)
    \/ Initialize_Enter(th)
    \/ ClearAllHooks_Lock(th)
    \/ ClearAllHooks_Unhook(th)
    \/ ClearAllHooks_Clear(th)
    \/ HookMethod_Unsupported(th)
    \/ HookMethod_Lock(th)
    \/ HookMethod_Find(th)
    \/ HookMethod_Resolve(th)
    \/ HookMethod_Get(th)
    \/ HookMethod_Set(th)
    \/ HookMethod_Store(th)
    \/ UnhookMethod_Unsupported(th)
    \/ UnhookMethod_Lock(th)
    \/ UnhookMethod_Find(th)
    \/ UnhookMethod_Erase(th)
    \/ ObjcClearAllHooks_Unsupported(th)
    \/ ObjcClearAllHooks_Lock(th)
    \/ ObjcClearAllHooks_Clear(th)

NextEngineCalls == \E th \in Threads : EngineStep(th)

SpecEngineCalls ==
    /\ InitEngineCalls
    /\ [][NextEngineCalls]_vars
    /\ \A th \in Pair : WF_vars(EngineStep(th))

\* Every thread of Pair is back from its call.
AllReturned == \A th \in Pair : pc[th] = "returned"

\* C29: no thread is at the lock_guard of a mutex it holds, no thread holds
\* both registry mutexes, and every call eventually returns.
C29_EveryCallReturns ==
    /\ [](\A th \in Threads :
            /\ AtLockGuard(th) => MutexOwnerFor(callOp[th]) # th
            /\ ~(s_hookMutex = th /\ s_methodMutex = th))
    /\ <>AllReturned

\* A RegisterHook that succeeded and an Initialize that then cleared its
\* entry have both returned.
C29_Witness ==
    /\ AllReturned
    /\ \E a, b \in Pair :
        /\ callOp[a] = "RegisterHook" /\ ret[a]
        /\ callOp[b] = "Initialize" /\ ret[b]
        /\ s_hookedFunctions = EmptyMap
        /\ call[b].remaining = {}
        /\ call[b].okSet \cup {1} = {1}

\* ------------------------------------------- MemoryOptimizer's object cache
\*
\* CacheObject and GetCachedObject are the template bodies of
\* MemoryOptimizer.h; CleanCache is declared there and follows its
\* declaration: it removes entries and returns the bytes it freed.

\* cacheSize up to which CacheObject is still called.
MaxCacheBytes == 5

\* m_maxCacheSize, set by the constructor.
MaxCacheSize == 4

\* The longest time-to-live passed to CacheObject.
MaxTtl == 1

\* The time up to which the cache is used.
MaxCacheTime == 3

CacheKeys == {"a", "b"}

\* sizeof(T) of the cached types.
TypeSizes == {1, 2}

\* The shared_ptr<T> object a caller caches.
Objects == {1}

Ttls == 0..MaxTtl

\* std::chrono::steady_clock::time_point::max(): later than any time.
TimePointMax == MaxCacheTime + MaxTtl + 1

\* The sum of the recorded sizes of the entries of cache m.
RECURSIVE EntrySizes(_)
EntrySizes(m) ==
    IF DOMAIN m = {} THEN 0
    ELSE LET k == CHOOSE x \in DOMAIN m : TRUE
         IN  m[k].size + EntrySizes([x \in DOMAIN m \ {k} |-> m[x]])

\* CleanCache(percentToRemove): some entries go, and the statistic goes
\* down by the bytes they held.
CleanCache(m, size, removed) ==
    [cache |-> [k \in DOMAIN m \ removed |-> m[k]],
     size |-> size - EntrySizes([k \in removed |-> m[k]])]

\* `ttlMs == 0 ? time_point::max() : now() + milliseconds(ttlMs)`
Expiration(ttlMs, t) == IF ttlMs = 0 THEN TimePointMax ELSE t + ttlMs

\* Expired of a cache that never checks the expiration.
ExpiredNever(entry, t) == FALSE

\* `expiration != time_point::max() && expiration < now()`
Expired(entry, t) ==
    entry.expiration # TimePointMax /\ entry.expiration < t

\* CacheSizeAfterStore of a CacheObject that takes the replaced entry's
\* size off first.
CacheSizeAfterStoreReplacing(m, key, size, sizeofT) ==
    IF Find(m, key) THEN size - m[key].size + sizeofT ELSE size + sizeofT

\* `m_stats.cacheSize += sizeof(T);`
CacheSizeAfterStore(m, key, size, sizeofT) == size + sizeofT

\* The time-to-live the caller gave entry has elapsed at time t.
Elapsed(entry, t) == entry.ttlMs # 0 /\ t > entry.cachedAt + entry.ttlMs

\* The GetCachedObject(key) that has just returned result, whether it found
\* an entry, and whether that entry's time-to-live had elapsed.
ReturnedC(key, result) ==
    [op |-> "GetCachedObject", key |-> key, ret |-> result,
     found |-> Find(m_objectCache, key),
     elapsed |-> Find(m_objectCache, key)
                     /\ Elapsed(m_objectCache[key], now)]

\* CacheObject<T>(key, object, ttlMs). cachedAt and ttlMs record what the
\* caller asked for; the code keeps only the expiration.
CacheObject(key, object, ttlMs, sizeofT) ==
    LET entry == [object |-> object, expiration |-> Expiration(ttlMs, now),
                  size |-> sizeofT, cachedAt |-> now, ttlMs |-> ttlMs]
        stored == Put(m_objectCache, key, entry)
        size == CacheSizeAfterStore(m_objectCache, key, cacheSize, sizeofT)
    IN  /\ \/ /\ size > MaxCacheSize
              /\ \E removed \in SUBSET DOMAIN stored :
                  LET cleaned == CleanCache(stored, size, removed)
                  IN  /\ m_objectCache' = cleaned.cache
                      /\ cacheSize' = cleaned.size
           \/ /\ ~(size > MaxCacheSize)
              /\ m_objectCache' = stored
              /\ cacheSize' = size
        /\ lastC' = [op |-> "CacheObject", key |-> key]

\* GetCachedObject<T>(key)
GetCachedObject(key) ==
    IF ~Find(m_objectCache, key)
    THEN /\ lastC' = ReturnedC(key, Null)
         /\ UNCHANGED <<m_objectCache, cacheSize>>
    ELSE IF Expired(m_objectCache[key], now)
    THEN /\ cacheSize' = cacheSize - m_objectCache[key].size
         /\ m_objectCache' = Erase(m_objectCache, key)
         /\ lastC' = ReturnedC(key, Null)
    ELSE /\ lastC' = ReturnedC(key, m_objectCache[key].object)
         /\ UNCHANGED <<m_objectCache, cacheSize>>

cacheRest ==
    <<hookVars, last, netVars, threadVars, objcVars, stackVars, antiVars,
      sysVars, luauVars>>

CallCacheObject ==
    /\ cacheSize < MaxCacheBytes
    /\ \E key \in CacheKeys, object \in Objects, ttlMs \in Ttls,
          sizeofT \in TypeSizes :
        CacheObject(key, object, ttlMs, sizeofT)
    /\ UNCHANGED cacheRest

CallGetCachedObject ==
    /\ \E key \in CacheKeys : GetCachedObject(key)
    /\ UNCHANGED cacheRest

\* Time passes while the cache is in use.
CacheTick ==
    /\ now < MaxCacheTime
    /\ now' = now + 1
    /\ UNCHANGED <<lastUpdate, lastA, riskRest>>

InitCaching == Init /\ apple

NextCache == CallCacheObject \/ CallGetCachedObject \/ CacheTick

SpecCache == InitCaching /\ [][NextCache]_vars

\* C31: GetCachedObject never returns an object whose time-to-live has
\* elapsed: an expired entry yields nullptr, leaves the cache, and its size
\* is taken off cacheSize; an entry cached with ttlMs = 0 is returned
\* whatever the time; an absent key yields nullptr and changes nothing.
C31_ExpiredEntryNeverReturned ==
    [][(lastC'.op = "GetCachedObject" /\ lastC' # lastC) =>
        LET key == lastC'.key
        IN  /\ lastC'.found = Find(m_objectCache, key)
            /\ IF ~Find(m_objectCache, key)
               THEN /\ lastC'.ret = Null
                    /\ m_objectCache' = m_objectCache
                    /\ cacheSize' = cacheSize
               ELSE IF Elapsed(m_objectCache[key], now)
               THEN /\ lastC'.ret = Null
                    /\ m_objectCache' = Erase(m_objectCache, key)
                    /\ cacheSize' = cacheSize - m_objectCache[key].size
               ELSE /\ lastC'.ret = m_objectCache[key].object
                    /\ m_objectCache' = m_objectCache
                    /\ cacheSize' = cacheSize]_vars

\* An entry with a time-to-live was fetched after it had elapsed, and an
\* entry without one is still cached long after.
C31_Witness ==
    /\ lastC.op = "GetCachedObject"
    /\ lastC.found
    /\ lastC.elapsed
    /\ lastC.ret = Null
    /\ ~Find(m_objectCache, lastC.key)
    /\ \E k \in DOMAIN m_objectCache :
        m_objectCache[k].ttlMs = 0 /\ m_objectCache[k].cachedAt + MaxTtl < now

\* C32: cacheSize is the sum of the recorded sizes of the cached entries.
C32_CacheSizeIsSumOfEntries == cacheSize = EntrySizes(m_objectCache)

\* ------------------------------------------------------------- SystemState
\*
\* SystemState::Initialize as the steps of one caller: the options are read
\* where the code reads them, so each step draws its option and the outcome
\* of the subsystem it starts. lastS.at is the caller's position.

\* A non-null handle.
Object == 1

\* The order of Initialize's steps.
StepOrder ==
    <<"logging", "errorHandling", "security", "jailbreakBypass",
      "performance", "executionEngine", "ui", "customValidation">>

\* The steps whose failure makes Initialize return false.
RequiredSteps ==
    {"logging", "errorHandling", "executionEngine", "customValidation"}

\* The flag of s_status each step sets; custom validation sets none.
StepFlag(step) ==
    CASE step = "logging" -> "loggingInitialized"
      [] step = "errorHandling" -> "errorHandlingInitialized"
      [] step = "security" -> "securityInitialized"
      [] step = "jailbreakBypass" -> "jailbreakBypassInitialized"
      [] step = "performance" -> "performanceInitialized"
      [] step = "executionEngine" -> "executionEngineInitialized"
      [] step = "ui" -> "uiInitialized"
      [] OTHER -> "none"

\* What a step may do: "disabled" its option is off (for custom validation:
\* no callback); "ok"; "fail" it returns false, by itself or because it
\* caught an exception; for the execution engine "managerFails" and
\* "engineFails" tell which Initialize() returned false; "throws" a custom
\* validation callback that raises.
StepOutcomes(step) ==
    CASE step = "executionEngine" -> {"ok", "managerFails", "engineFails"}
      [] step = "customValidation" -> {"disabled", "ok", "fail", "throws"}
      [] OTHER -> {"disabled", "ok", "fail"}

\* A pre-init or post-init callback: absent, returning, or raising.
CallbackOutcomes == {"none", "returns", "throws"}

\* The step after position i of StepOrder.
StepAfter(i) == IF i < Len(StepOrder) THEN StepOrder[i + 1] ELSE "finish"

\* The position of step in StepOrder.
StepIndex(step) == CHOOSE i \in 1..Len(StepOrder) : StepOrder[i] = step

\* AbortsOn of an Initialize that carries on after every failure.
AbortsOnNone(step) == FALSE

\* AbortsOn of an Initialize that gives up on every failure.
AbortsOnAny(step) == TRUE

\* The `return false;` after a failed step: only the required steps have it.
AbortsOn(step) == step \in RequiredSteps

\* No SystemState call is in progress.
SystemIdle == lastS.at = "returned"

\* Initialize: `s_options = options; s_status = SystemStatus();`
Initialize_Reset ==
    /\ SystemIdle
    /\ s_status' = SystemStatus
    /\ lastS' = [op |-> "Initialize", at |-> "preInit", ret |-> FALSE,
                 attempted |-> << >>, failed |-> {}, threw |-> FALSE,
                 prevOp |-> lastS.op]
    /\ UNCHANGED <<s_executionEngine, s_scriptManager, s_uiController>>

\* Initialize: `if (s_options.preInitCallback) s_options.preInitCallback();`
Initialize_PreInit ==
    /\ lastS.op = "Initialize"
    /\ lastS.at = "preInit"
    /\ \E outcome \in CallbackOutcomes :
        lastS' = IF outcome = "throws"
                 THEN [lastS EXCEPT !.at = "returned", !.threw = TRUE]
                 ELSE [lastS EXCEPT !.at = StepOrder[1]]
    /\ UNCHANGED <<s_status, s_executionEngine, s_scriptManager,
                   s_uiController>>

\* InitializeLogging, InitializeErrorHandling, InitializeSecurity,
\* InitializeJailbreakBypass, InitializePerformanceMonitoring: the flag is
\* set when the subsystem started, and only then.
StatusAfter(status, step, outcome) ==
    IF outcome = "ok" /\ StepFlag(step) # "none"
    THEN [status EXCEPT ![StepFlag(step)] = TRUE]
    ELSE status

\* InitializeExecutionEngine: s_scriptManager is assigned before the
\* manager's Initialize(), s_executionEngine before the engine's.
ManagerAfter(manager, step, outcome) ==
    IF step = "executionEngine" THEN Object ELSE manager

EngineAfter(engine, step, outcome) ==
    IF step = "executionEngine" /\ outcome \in {"ok", "engineFails"}
    THEN Object
    ELSE engine

\* InitializeUI: s_uiController is assigned before its Initialize().
ControllerAfter(controller, step, outcome) ==
    IF step = "ui" /\ outcome \in {"ok", "fail"} THEN Object ELSE controller

\* Initialize: one numbered step, from its `if (s_options.enable...)` to the
\* `return false;` or the fall-through to the next step.
Initialize_Step ==
    /\ lastS.op = "Initialize"
    /\ lastS.at \in {StepOrder[i] : i \in 1..Len(StepOrder)}
    /\ LET step == lastS.at
       IN  \E outcome \in StepOutcomes(step) :
        /\ s_status' = StatusAfter(s_status, step, outcome)
        /\ s_scriptManager' = ManagerAfter(s_scriptManager, step, outcome)
        /\ s_executionEngine' = EngineAfter(s_executionEngine, step, outcome)
        /\ s_uiController' = ControllerAfter(s_uiController, step, outcome)
        /\ lastS' =
            IF outcome = "disabled"
            THEN [lastS EXCEPT !.at = StepAfter(StepIndex(step))]
            ELSE IF outcome = "throws"
            THEN [lastS EXCEPT !.at = "returned", !.threw = TRUE,
                               !.attempted = Append(@, step)]
            ELSE IF outcome = "ok"
            THEN [lastS EXCEPT !.at = StepAfter(StepIndex(step)),
                               !.attempted = Append(@, step)]
            ELSE [lastS EXCEPT !.at = IF AbortsOn(step) THEN "returned"
                                      ELSE StepAfter(StepIndex(step)),
                               !.attempted = Append(@, step),
                               !.failed = @ \cup {step}]

\* Initialize: `s_status.allSystemsInitialized = true;`
Initialize_Finish ==
    /\ lastS.op = "Initialize"
    /\ lastS.at = "finish"
    /\ s_status' = [s_status EXCEPT !.allSystemsInitialized = TRUE]
    /\ lastS' = [lastS EXCEPT !.at = "postInit"]
    /\ UNCHANGED <<s_executionEngine, s_scriptManager, s_uiController>>

\* Initialize: the post-init callback, then `return true;`, or the catch
\* block's `return false;`.
Initialize_PostInit ==
    /\ lastS.op = "Initialize"
    /\ lastS.at = "postInit"
    /\ \E outcome \in CallbackOutcomes :
        lastS' = IF outcome = "throws"
                 THEN [lastS EXCEPT !.at = "returned", !.threw = TRUE]
                 ELSE [lastS EXCEPT !.at = "returned", !.ret = TRUE]
    /\ UNCHANGED <<s_status, s_executionEngine, s_scriptManager,
                   s_uiController>>

\* StatusAfterShutdown of a Shutdown that leaves s_status as it is.
StatusAfterShutdownKept(status) == status

\* Shutdown: `s_status = SystemStatus();`
StatusAfterShutdown(status) == SystemStatus

\* Shutdown: the three handles are reset, the monitors of the subsystems
\* that run are stopped, and the status is reset.
Shutdown ==
    /\ SystemIdle
    /\ s_uiController' = Null
    /\ s_executionEngine' = Null
    /\ s_scriptManager' = Null
    /\ s_status' = StatusAfterShutdown(s_status)
    /\ lastS' = [op |-> "Shutdown", at |-> "returned", prevOp |-> lastS.op,
                 prevInitialized |-> s_status.allSystemsInitialized]

\* The ExecutionResult of the early return.
NotInitializedResult == "Execution engine not initialized"

\* ExecuteScript of a caller that tests the status flag.
EngineMissingByStatus(engine, status) == ~status.executionEngineInitialized

\* `auto engine = SystemState::GetExecutionEngine(); if (!engine)`
EngineMissing(engine, status) == engine = Null

\* ExecuteScript(script): the early return, or `engine->Execute(script)`.
ExecuteScript ==
    /\ SystemIdle
    /\ lastS' = IF EngineMissing(s_executionEngine, s_status)
                THEN [op |-> "ExecuteScript", at |-> "returned",
                      result |-> NotInitializedResult, ran |-> FALSE,
                      prevOp |-> lastS.op]
                ELSE [op |-> "ExecuteScript", at |-> "returned",
                      result |-> "executed", ran |-> TRUE,
                      prevOp |-> lastS.op]
    /\ UNCHANGED <<s_status, s_executionEngine, s_scriptManager,
                   s_uiController>>

systemRest ==
    <<hookVars, last, netVars, threadVars, objcVars, stackVars, antiVars,
      cacheVars, luauVars>>

CallInitialize_Reset == Initialize_Reset /\ UNCHANGED systemRest

CallInitialize_PreInit == Initialize_PreInit /\ UNCHANGED systemRest

CallInitialize_Step == Initialize_Step /\ UNCHANGED systemRest

CallInitialize_Finish == Initialize_Finish /\ UNCHANGED systemRest

CallInitialize_PostInit == Initialize_PostInit /\ UNCHANGED systemRest

CallShutdown == Shutdown /\ UNCHANGED systemRest

CallExecuteScript == ExecuteScript /\ UNCHANGED systemRest

NextSystem ==
    \/ CallInitialize_Reset
    \/ CallInitialize_PreInit
    \/ CallInitialize_Step
    \/ CallInitialize_Finish
    \/ CallInitialize_PostInit
    \/ CallShutdown
    \/ CallExecuteScript

SpecSystem == InitCaching /\ [][NextSystem]_vars

\* Initialize has returned.
InitializeReturned == lastS.op = "Initialize" /\ lastS.at = "returned"

\* Sequence seq lists steps of StepOrder in StepOrder's order.
InStepOrder(seq) ==
    \A i, j \in 1..Len(seq) : i < j => StepIndex(seq[i]) < StepIndex(seq[j])

\* C33: the steps Initialize attempts come in the fixed dependency order,
\* and when logging, error handling, the execution engine or custom
\* validation fails, Initialize returns false and that step is the last
\* one attempted.
C33_RequiredFailureStopsInOrder ==
    lastS.op = "Initialize" =>
        /\ InStepOrder(lastS.attempted)
        /\ \A i \in 1..Len(lastS.attempted) :
            (lastS.attempted[i] \in lastS.failed \cap RequiredSteps) =>
                /\ i = Len(lastS.attempted)
                /\ lastS.at = "returned"
                /\ ~lastS.ret

\* Initialize returned false at the execution engine after security and
\* the performance monitor had been attempted.
C33_Witness ==
    /\ InitializeReturned
    /\ ~lastS.ret
    /\ "executionEngine" \in lastS.failed
    /\ Len(lastS.attempted) >= 3
    /\ lastS.attempted[1] = "logging"

\* C34: when no required step failed and no callback raised, Initialize
\* returns true with allSystemsInitialized set, whatever optional steps
\* failed, and the flag of every failed optional subsystem is false.
C34_OptionalFailureTolerated ==
    (InitializeReturned /\ lastS.failed \cap RequiredSteps = {}
                        /\ ~lastS.threw) =>
        /\ lastS.ret
        /\ s_status.allSystemsInitialized
        /\ \A step \in lastS.failed : ~s_status[StepFlag(step)]

\* Initialize returned true although security and the UI had failed.
C34_Witness ==
    /\ InitializeReturned
    /\ lastS.ret
    /\ {"security", "ui"} \subseteq lastS.failed
    /\ s_status.executionEngineInitialized

\* C35: whenever Initialize returns false, allSystemsInitialized is false.
C35_FailedInitializeNotInitialized ==
    (InitializeReturned /\ ~lastS.ret) => ~s_status.allSystemsInitialized

\* C36: wherever executionEngineInitialized is false, ExecuteScript returns
\* 'Execution engine not initialized' and does not run the script.
C36_ExecuteNeedsInitializedEngine ==
    (lastS.op = "ExecuteScript" /\ ~s_status.executionEngineInitialized) =>
        /\ lastS.result = NotInitializedResult
        /\ ~lastS.ran

\* C37: after Shutdown every status flag is false and the three handles
\* are null, a second Shutdown included.
C37_ShutdownReleasesEverything ==
    lastS.op = "Shutdown" =>
        /\ s_status = SystemStatus
        /\ s_executionEngine = Null
        /\ s_scriptManager = Null
        /\ s_uiController = Null

\* Shutdown has run on a fully initialized system.
C37_Witness ==
    /\ lastS.op = "Shutdown"
    /\ lastS.prevOp = "Initialize"
    /\ lastS.prevInitialized

\* ------------------------------------------------- LuauMemory's allocator
\*
\* trackingAllocator over a few blocks; size_t is WordBits wide, so that
\* the total of the live blocks can pass 2^WordBits.

\* The width of size_t.
WordBits == 3

\* Blocks that can be live at once.
MaxBlocks == 2

\* The largest block size asked for.
MaxBlockSize == 5

\* 2^WordBits
SizeModulus == 2 ^ WordBits

Pointers == 1..MaxBlocks

BlockSizes == 1..MaxBlockSize

\* `-osize` and `nsize - osize` in size_t.
Wrapped(n) == n % SizeModulus

\* The total size of the live blocks m.
RECURSIVE LiveTotal(_)
LiveTotal(m) ==
    IF DOMAIN m = {} THEN 0
    ELSE LET p == CHOOSE x \in DOMAIN m : TRUE
         IN  m[p] + LiveTotal([x \in DOMAIN m \ {p} |-> m[x]])

Max(a, b) == IF a >= b THEN a ELSE b

\* TrackedAllocated of a tracker whose `change > 0` test takes a wrapped
\* decrease for what it is.
TrackedAllocatedSigned(amount, change) ==
    IF 2 * change < SizeModulus
    THEN (amount + change) % SizeModulus
    ELSE IF change <= amount THEN amount - change ELSE amount

\* MemoryTracker::track(change): `allocated` afterwards.
TrackedAllocated(amount, change) ==
    IF change > 0 THEN (amount + change) % SizeModulus
    ELSE IF change <= amount THEN amount - change
    ELSE amount

\* MemoryTracker::track(change): `peak` afterwards.
TrackedPeak(amount, top, change) ==
    IF change > 0 THEN Max(top, TrackedAllocated(amount, change)) ELSE top

\* globalTracker.track(change), and the largest value seen.
track(change) ==
    /\ allocated' = TrackedAllocated(allocated, change)
    /\ peak' = TrackedPeak(allocated, peak, change)
    /\ highest' = Max(highest, TrackedAllocated(allocated, change))

\* trackingAllocator(ud, ptr, osize, nsize) with osize the block's size;
\* succeeds tells whether malloc or realloc returned a block, newptr which.
trackingAllocator(ptr, osize, nsize, succeeds, newptr) ==
    IF nsize = 0
    THEN IF ptr # Null
         THEN /\ track(Wrapped(0 - osize))
              /\ blocks' = Erase(blocks, ptr)
         ELSE UNCHANGED <<allocated, peak, highest, blocks>>
    ELSE IF ptr = Null
    THEN IF succeeds
         THEN /\ track(nsize)
              /\ blocks' = Put(blocks, newptr, nsize)
         ELSE UNCHANGED <<allocated, peak, highest, blocks>>
    ELSE IF succeeds
         THEN /\ track(Wrapped(nsize - osize))
              /\ blocks' = Put(blocks, ptr, nsize)
         ELSE UNCHANGED <<allocated, peak, highest, blocks>>

luauRest ==
    <<hookVars, last, netVars, threadVars, objcVars, stackVars, antiVars,
      cacheVars, sysVars>>

\* lua_Alloc's allocate: ptr is null.
CallAllocate ==
    /\ \E nsize \in BlockSizes, succeeds \in BOOLEAN,
          newptr \in Pointers \ DOMAIN blocks :
        trackingAllocator(Null, 0, nsize, succeeds, newptr)
    /\ UNCHANGED luauRest

\* lua_Alloc's resize of a live block.
CallResize ==
    /\ \E ptr \in DOMAIN blocks, nsize \in BlockSizes, succeeds \in BOOLEAN :
        trackingAllocator(ptr, blocks[ptr], nsize, succeeds, ptr)
    /\ UNCHANGED luauRest

\* lua_Alloc's free: nsize is 0, of a live block or of null.
CallFree ==
    /\ \E ptr \in DOMAIN blocks \cup {Null} :
        trackingAllocator(ptr, IF ptr = Null THEN 0 ELSE blocks[ptr], 0,
                          TRUE, ptr)
    /\ UNCHANGED luauRest

NextLuau == CallAllocate \/ CallResize \/ CallFree

SpecLuau == InitCaching /\ [][NextLuau]_vars

\* C38: allocated is the total size of the live blocks modulo 2^WordBits,
\* and peak is the largest value allocated has had.
C38_TrackerMatchesLiveBlocks ==
    /\ allocated = LiveTotal(blocks) % SizeModulus
    /\ peak = highest

\* Two blocks are live after a free or a shrinking resize: allocated has
\* come down from its peak.
C38_Witness ==
    /\ Cardinality(DOMAIN blocks) = MaxBlocks
    /\ allocated < peak
    /\ allocated = LiveTotal(blocks)

====
